---- MODULE Spec2Model ----
(***************************************************************************)
(* A model of fscad's component tree (src/fscad.py): nodes carrying a      *)
(* local affine transform, lazily filled caches (world transform, world    *)
(* bodies, bounding box, inverse transform, plane), composites that fold   *)
(* their children's bodies eagerly, copy-on-attach, and the exceptions     *)
(* the operations raise part-way.                                          *)
(*                                                                         *)
(* Geometry is kept along one axis, the z axis of the program.  A body is  *)
(* the finite set of integer z levels it occupies; a transform is the map  *)
(* z |-> a*z + b with a in {1,-1}: translations along z, half-turn         *)
(* rotations and uniform scales of magnitude one.  These maps form a       *)
(* non-commutative group, so the order of composition and the direction    *)
(* of an inverse are observable.  The plane of a planar face is the z      *)
(* level it lies in; two planes are coplanar when the levels are equal.    *)
(* Python objects are heap cells: heap is the sequence of all objects in   *)
(* allocation order, and an object reference is an index into it (0 is     *)
(* Python's None for references).  An optional value is <<>> (None) or     *)
(* <<v>>.  Every Python method is an operator from a heap to a record      *)
(* holding the heap it leaves, the value it returns and whether it raised. *)
(***************************************************************************)
EXTENDS Integers, Sequences, FiniteSets, TLC

VARIABLES heap, last, nops, probe

vars == <<heap, last, nops, probe>>

\* Bounds of the exploration.
MaxNodes == 4
MaxOps == 3
MaxArgs == 2
InitLeaves == 2
TwinOps == 2

None == <<>>
Some(x) == <<x>>

R(h, v, err) == [h |-> h, v |-> v, err |-> err]

\* A list built elementwise, as the explicit sequence of its elements.
AsList(f) == <<>> \o f

Range(s) == {s[i] : i \in 1..Len(s)}

(***************************************************************************)
(* Matrix3D, restricted to the z axis.                                     *)
(***************************************************************************)
Identity == [a |-> 1, b |-> 0]

TranslationMatrix(tz) == [a |-> 1, b |-> tz]

\* setToRotation(pi, x axis, center): z |-> 2*cz - z.
HalfTurn(cz) == [a |-> -1, b |-> 2 * cz]

ScaleMatrix(sz) == [a |-> sz, b |-> 0]

\* m.transformBy(n): m is applied first, n second.
TransformBy(m, n) == [a |-> m.a * n.a, b |-> n.a * m.b + n.b]

\* m.invert(), for a in {1,-1}: z |-> a*(z - b).
Invert(m) == [a |-> m.a, b |-> -(m.a * m.b)]

(***************************************************************************)
(* The geometry kernel (brep(), measureManager), on bodies as sets of z    *)
(* levels.                                                                 *)
(***************************************************************************)
BodyTransform(body, m) == {m.a * z + m.b : z \in body}

\* Mutant: a boolean operation that leaves the target as it was.
BooleanOperation_noop(target, tool, op) == target

BooleanOperation(target, tool, op) ==
    CASE op = "Union" -> target \cup tool
      [] op = "Difference" -> target \ tool
      [] op = "Intersection" -> target \cap tool

SetMin(S) == CHOOSE x \in S : \A y \in S : x <= y
SetMax(S) == CHOOSE x \in S : \A y \in S : x >= y

\* Mutant: the box ends at its lower corner.
BoxOfBody_low(body) ==
    IF body = {} THEN None ELSE Some([lo |-> SetMin(body), hi |-> SetMin(body)])

\* A bounding box is <<>> for no extent, else <<[lo, hi]>>.
BoxOfBody(body) ==
    IF body = {} THEN None ELSE Some([lo |-> SetMin(body), hi |-> SetMax(body)])

Combine(b1, b2) ==
    IF b1 = None THEN b2
    ELSE IF b2 = None THEN b1
    ELSE Some([lo |-> IF b1[1].lo <= b2[1].lo THEN b1[1].lo ELSE b2[1].lo,
               hi |-> IF b1[1].hi >= b2[1].hi THEN b1[1].hi ELSE b2[1].hi])

RECURSIVE ExactBoundingBox(_, _)
ExactBoundingBox(bodies, i) ==
    IF i > Len(bodies) THEN None
    ELSE Combine(BoxOfBody(bodies[i]), ExactBoundingBox(bodies, i + 1))

\* faces[0].geometry of a planar body: the level the face lies in.
PlaneOfFace(body) == CHOOSE z \in body : TRUE

IsCoPlanarTo(p, q) == p = q

\* body.faces: one face per level the body occupies.
Faces(body) == body

\* The loft feature: the solid between the sections; it needs two sections.
LoftBody(sections) ==
    LET pts == UNION Range(sections) IN SetMin(pts)..SetMax(pts)

(***************************************************************************)
(* Objects.                                                                *)
(***************************************************************************)
LeafKinds == {"Box", "Rect"}
CsgKinds == {"Union", "Difference", "Intersection"}
CompositeKinds == CsgKinds \cup {"Loft"}

BoxBody == {0, 1}
RectBody == {0}

Nodes(h) == 1..Len(h)

\* Component.__init__, with the fields the subclasses add.  raw is the
\* owned geometry (_body as a one-element list, or _bodies), None while it
\* is unset.
NewObject(kind, raw) ==
    [kind |-> kind, parent |-> 0, local |-> Identity, children |-> <<>>,
     raw |-> raw, cw |-> None, cb |-> None, cbb |-> None, ci |-> None,
     cp |-> None, cpp |-> FALSE]

IsComposite(h, n) == h[n].kind \in CompositeKinds

\* Component.children / ComponentWithChildren.children
Children(h, n) == h[n].children

RECURSIVE Ancestors(_, _)
Ancestors(h, n) ==
    IF h[n].parent = 0 THEN {} ELSE {h[n].parent} \cup Ancestors(h, h[n].parent)

RECURSIVE Subtree(_, _)
Subtree(h, n) ==
    {n} \cup UNION {Subtree(h, h[n].children[i]) : i \in 1..Len(h[n].children)}

(***************************************************************************)
(* Component._get_world_transform                                          *)
(***************************************************************************)
\* self._cached_world_transform = transform; return transform.copy()
WithWorld(h, n, t) == R([h EXCEPT ![n].cw = Some(t)], t, FALSE)

\* transform.transformBy(self.parent._get_world_transform()), p being what
\* the parent returned.
WorldUnder(p, n) == WithWorld(p.h, n, TransformBy(p.h[n].local, p.v))

RECURSIVE GetWorldTransform(_, _)
GetWorldTransform(h, n) ==
    IF h[n].cw # None THEN R(h, h[n].cw[1], FALSE)
    ELSE IF h[n].parent = 0 THEN WithWorld(h, n, h[n].local)
    ELSE WorldUnder(GetWorldTransform(h, h[n].parent), n)

(***************************************************************************)
(* Component.bodies: raises when the owned geometry is unset (_raw_bodies  *)
(* hands None to the kernel or to tuple()).                                *)
(***************************************************************************)
TransformAll(bodies, m) ==
    AsList([i \in 1..Len(bodies) |-> BodyTransform(bodies[i], m)])

\* self._cached_bodies = bodies_copy; return bodies_copy
WithBodies(h, n, bs) == R([h EXCEPT ![n].cb = Some(bs)], bs, FALSE)

\* The copies of _raw_bodies() transformed by the world transform w.v.
BodiesIn(w, n) ==
    IF w.h[n].raw = None THEN R(w.h, <<>>, TRUE)
    ELSE WithBodies(w.h, n, TransformAll(w.h[n].raw[1], w.v))

Bodies(h, n) ==
    IF h[n].cb # None THEN R(h, h[n].cb[1], FALSE)
    ELSE BodiesIn(GetWorldTransform(h, n), n)

(***************************************************************************)
(* Component.min / max / mid / size: they fill the bounding box cache the  *)
(* same way and differ in the point they return; v is the box.             *)
(***************************************************************************)
\* self._cached_bounding_box = box; a box without extent raises.
WithBox(h, n, box) ==
    IF box = None THEN R(h, None, TRUE)
    ELSE R([h EXCEPT ![n].cbb = Some(box)], box, FALSE)

\* _get_exact_bounding_box over the bodies b.v.
BoxOf(b, n) ==
    IF b.err THEN b ELSE WithBox(b.h, n, ExactBoundingBox(b.v, 1))

BoundingBox(h, n) ==
    IF h[n].cbb # None THEN R(h, h[n].cbb[1], FALSE)
    ELSE BoxOf(Bodies(h, n), n)

(***************************************************************************)
(* get_plane: Component (None), Rect/Circle (the plane of the cached       *)
(* body's face), Union/Difference (the first child's), Intersection (the   *)
(* first non-null plane among the children, cached).                       *)
(***************************************************************************)
RECURSIVE GetPlane(_, _)
RECURSIVE FirstPlane(_, _, _)

\* Rect.get_plane: the plane of the face of the body b.v[1].
PlaneOfBodies(b) == R(b.h, Some(PlaneOfFace(b.v[1])), FALSE)

\* Mutant: the loop has no break, the last child's plane wins.
NextPlane_noBreak(p, kids, i) ==
    IF i = Len(kids) THEN p ELSE FirstPlane(p.h, kids, i + 1)

\* if plane: break
NextPlane(p, kids, i) ==
    IF p.v # None THEN p ELSE FirstPlane(p.h, kids, i + 1)

FirstPlane(h, kids, i) ==
    IF i > Len(kids) THEN R(h, None, FALSE)
    ELSE NextPlane(GetPlane(h, kids[i]), kids, i)

\* self._cached_plane = plane; self._cached_plane_populated = True
WithPlane(p, n) == R([p.h EXCEPT ![n].cp = p.v, ![n].cpp = TRUE], p.v, FALSE)

GetPlane(h, n) ==
    CASE h[n].kind = "Rect" -> PlaneOfBodies(Bodies(h, n))
      [] h[n].kind \in {"Union", "Difference"} ->
            IF Len(Children(h, n)) = 0 THEN R(h, None, FALSE)
            ELSE GetPlane(h, Children(h, n)[1])
      [] h[n].kind = "Intersection" ->
            IF h[n].cpp THEN R(h, h[n].cp, FALSE)
            ELSE WithPlane(FirstPlane(h, Children(h, n), 1), n)
      [] OTHER -> R(h, None, FALSE)

(***************************************************************************)
(* _reset_cache: Component clears its three caches and recurses into       *)
(* children(); ComponentWithChildren then clears the inverse transform,    *)
(* Intersection then the plane.                                            *)
(***************************************************************************)
\* Mutant: the body cache survives a reset.
ClearOwn_keepBodies(o) == [o EXCEPT !.cbb = None, !.cw = None]

ClearOwn(o) == [o EXCEPT !.cb = None, !.cbb = None, !.cw = None]

ClearSub(o) ==
    IF o.kind \in CompositeKinds
    THEN [o EXCEPT !.ci = None,
                   !.cp = IF o.kind = "Intersection" THEN None ELSE @,
                   !.cpp = IF o.kind = "Intersection" THEN FALSE ELSE @]
    ELSE o

\* Mutant: the reset stops at the node itself.
ResetTargets_self(h, n) == {n}

\* Mutant: the reset reaches every object, ancestors and siblings included.
ResetTargets_all(h, n) == Nodes(h)

\* The nodes one _reset_cache call visits.
ResetTargets(h, n) == Subtree(h, n)

ClearIn(h, T) ==
    AsList([i \in 1..Len(h) |-> IF i \in T THEN ClearSub(ClearOwn(h[i])) ELSE h[i]])

ResetCache(h, n) == ClearIn(h, ResetTargets(h, n))

(***************************************************************************)
(* ComponentWithChildren._inverse_transform                                *)
(***************************************************************************)
\* The inverse of the world transform w.v, cached.
Inverted(w, n) == R([w.h EXCEPT ![n].ci = Some(Invert(w.v))], Invert(w.v), FALSE)

InverseTransform(h, n) ==
    IF h[n].ci # None THEN R(h, h[n].ci[1], FALSE)
    ELSE Inverted(GetWorldTransform(h, n), n)

(***************************************************************************)
(* The per-child callbacks (process_child) of the constructors and of add. *)
(* A callback result holds the heap, whether it raised, and the two        *)
(* closure variables: Intersection's plane and Loft's loft_sections.       *)
(***************************************************************************)
F(h, err, plane, secs) == [h |-> h, err |-> err, plane |-> plane, secs |-> secs]

\* Union._check_coplanarity: TRUE when it raises.
UnionMismatch(plane, childPlane) ==
    \/ (childPlane = None) # (plane = None)
    \/ plane # None /\ ~IsCoPlanarTo(plane[1], childPlane[1])

\* Difference._check_coplanarity: TRUE when it raises.
DifferenceMismatch(plane, childPlane) ==
    IF plane = None THEN childPlane # None
    ELSE childPlane # None /\ ~IsCoPlanarTo(plane[1], childPlane[1])

\* Intersection._check_coplanarity: TRUE when it raises.
IntersectionMismatch(plane, childPlane) ==
    plane # None /\ childPlane # None /\ ~IsCoPlanarTo(plane[1], childPlane[1])

\* The guard of the three checks: a body has been accumulated.
HasBody(h, self) ==
    IF h[self].kind = "Union" THEN h[self].raw # None
    ELSE h[self].raw # None /\ Len(h[self].raw[1]) > 0

\* The verdict on plane (self.get_plane()) and q.v (child.get_plane()).
ComparePlanes(kind, plane, q) ==
    R(q.h, None,
      IF kind = "Union" THEN UnionMismatch(plane, q.v)
      ELSE DifferenceMismatch(plane, q.v))

\* child_plane = child.get_plane(), after plane = self.get_plane() gave p.
CheckAgainst(kind, p, c) == ComparePlanes(kind, p.v, GetPlane(p.h, c))

\* self._check_coplanarity(child) of Union and Difference.
CheckCoplanarity(h, self, c) ==
    IF ~HasBody(h, self) THEN R(h, None, FALSE)
    ELSE CheckAgainst(h[self].kind, GetPlane(h, self), c)

\* Intersection._check_coplanarity after child.get_plane() gave q: v is the
\* plane returned.
ComparePlanesI(q, hasBody, plane) ==
    IF hasBody /\ plane # None
    THEN R(q.h, plane, IntersectionMismatch(plane, q.v))
    ELSE R(q.h, q.v, FALSE)

\* Intersection._check_coplanarity(child, plane)
CheckCoplanarityI(h, self, c, plane) ==
    ComparePlanesI(GetPlane(h, c), HasBody(h, self), plane)

\* for body in bodies: booleanOperation(target, body, op)
RECURSIVE FoldInto(_, _, _, _)
FoldInto(target, bodies, i, op) ==
    IF i > Len(bodies) THEN target
    ELSE FoldInto(BooleanOperation(target, bodies[i], op), bodies, i + 1, op)

\* Union.__init__.process_child after the check: the first body seeds
\* _body (and get_plane is called for _plane, which nothing reads), the
\* others are united into it.
UnionSeedOrFold(h, self, c, bodies) ==
    IF Len(bodies) = 0 THEN h
    ELSE IF h[self].raw # None
         THEN [h EXCEPT ![self].raw = Some(<<FoldInto(@[1][1], bodies, 1, "Union")>>)]
         ELSE [GetPlane(h, c).h EXCEPT ![self].raw =
                  Some(<<FoldInto(bodies[1], bodies, 2, "Union")>>)]

\* for target_body in self._bodies: for tool_body in child.bodies(): ...
FoldEach(targets, bodies, op) ==
    AsList([i \in 1..Len(targets) |-> FoldInto(targets[i], bodies, 1, op)])

\* The inner loop, b being what child.bodies() returned.
FoldTools(b, self, op) ==
    IF b.err THEN R(b.h, None, TRUE)
    ELSE R([b.h EXCEPT ![self].raw = Some(FoldEach(@[1], b.v, op))], None, FALSE)

\* The body loops of Difference and Intersection; child.bodies() is only
\* called when there is a target.
TargetsFold(h, self, c, op) ==
    IF Len(h[self].raw[1]) = 0 THEN R(h, None, FALSE)
    ELSE FoldTools(Bodies(h, c), self, op)

\* self._bodies = [brep().copy(child_body) for child_body in child.bodies()]
Seed(b, self) ==
    IF b.err THEN R(b.h, None, TRUE)
    ELSE R([b.h EXCEPT ![self].raw = Some(b.v)], None, FALSE)

SeedOrTargetsFold(h, self, c, op) ==
    IF h[self].raw = None THEN Seed(Bodies(h, c), self)
    ELSE TargetsFold(h, self, c, op)

\* Union.__init__.process_child: the loop over child.bodies() (b).
UnionInitFold(b, self, c) ==
    IF b.err THEN R(b.h, None, TRUE)
    ELSE R(UnionSeedOrFold(b.h, self, c, b.v), None, FALSE)

\* Union.__init__.process_child after the check (k).
UnionInitChecked(k, self, c) ==
    IF k.err THEN k ELSE UnionInitFold(Bodies(k.h, c), self, c)

UnionProcessInit(h, self, c) ==
    UnionInitChecked(CheckCoplanarity(h, self, c), self, c)

\* Union.add.process_child: the loop over child.bodies() (b).  There is no
\* seeding; the kernel is handed _body as it is and raises on None.
UnionAddFold(b, self) ==
    IF b.err THEN R(b.h, None, TRUE)
    ELSE IF Len(b.v) = 0 THEN R(b.h, None, FALSE)
    ELSE IF b.h[self].raw = None THEN R(b.h, None, TRUE)
    ELSE R([b.h EXCEPT ![self].raw = Some(<<FoldInto(@[1][1], b.v, 1, "Union")>>)],
           None, FALSE)

UnionAddChecked(k, self, c) ==
    IF k.err THEN k ELSE UnionAddFold(Bodies(k.h, c), self)

UnionProcessAdd(h, self, c) ==
    UnionAddChecked(CheckCoplanarity(h, self, c), self, c)

\* Difference.__init__.process_child after the check (k).
DifferenceInitChecked(k, self, c) ==
    IF k.err THEN k ELSE SeedOrTargetsFold(k.h, self, c, "Difference")

DifferenceProcessInit(h, self, c) ==
    DifferenceInitChecked(CheckCoplanarity(h, self, c), self, c)

\* Difference.add.process_child after the check (k): iterating _bodies
\* raises on None.
DifferenceAddChecked(k, self, c) ==
    IF k.err THEN k
    ELSE IF k.h[self].raw = None THEN R(k.h, None, TRUE)
    ELSE TargetsFold(k.h, self, c, "Difference")

DifferenceProcessAdd(h, self, c) ==
    DifferenceAddChecked(CheckCoplanarity(h, self, c), self, c)

\* The plane the check returned (v) stays the closure's plane.
KeepPlane(f, plane) == R(f.h, plane, f.err)

\* Intersection.__init__.process_child after the check (k): v of the result
\* is the new value of the closure's plane.
IntersectionInitChecked(k, self, c) ==
    IF k.err THEN k
    ELSE KeepPlane(SeedOrTargetsFold(k.h, self, c, "Intersection"), k.v)

IntersectionProcessInit(h, self, c, plane) ==
    IntersectionInitChecked(CheckCoplanarityI(h, self, c, plane), self, c)

\* Intersection.add.process_child after the check (k).
IntersectionAddChecked(k, self, c) ==
    IF k.err THEN k
    ELSE IF k.h[self].raw = None THEN R(k.h, k.v, TRUE)
    ELSE KeepPlane(TargetsFold(k.h, self, c, "Intersection"), k.v)

IntersectionProcessAdd(h, self, c, plane) ==
    IntersectionAddChecked(CheckCoplanarityI(h, self, c, plane), self, c)

\* for child_body in child.bodies(): for face in child_body.faces
RECURSIVE AllFaces(_, _)
AllFaces(bodies, i) ==
    IF i > Len(bodies) THEN <<>>
    ELSE <<Faces(bodies[i])>> \o AllFaces(bodies, i + 1)

RECURSIVE FaceCount(_, _)
FaceCount(bodies, i) ==
    IF i > Len(bodies) THEN 0
    ELSE Cardinality(Faces(bodies[i])) + FaceCount(bodies, i + 1)

\* Loft.__init__.process_child, the loop over child.bodies() (b): v is the
\* section appended; a second face raises, and so does the copy of no face.
LoftSection(b) ==
    IF b.err \/ FaceCount(b.v, 1) # 1 THEN R(b.h, None, TRUE)
    ELSE R(b.h, Some(UNION Range(AllFaces(b.v, 1))), FALSE)

\* Loft.__init__.process_child after child.get_plane() (p).
LoftPlanar(p, c) ==
    IF p.v = None THEN R(p.h, None, TRUE) ELSE LoftSection(Bodies(p.h, c))

LoftProcess(h, self, c) == LoftPlanar(GetPlane(h, c), c)

\* What func(child) leaves in the closure: nothing, the plane, a section.
Plain(r, plane, secs) == F(r.h, r.err, plane, secs)

NewPlane(r, plane, secs) == F(r.h, r.err, IF r.err THEN plane ELSE r.v, secs)

\* Mutant: a new section is put in front of the others.
NewSection_front(r, plane, secs) ==
    F(r.h, r.err, plane, IF r.err THEN secs ELSE <<r.v[1]>> \o secs)

NewSection(r, plane, secs) ==
    F(r.h, r.err, plane, IF r.err THEN secs ELSE Append(secs, r.v[1]))

\* func(child), by the callback passed to _add_children ("none": no func).
ProcessChild(h, self, c, fk, plane, secs) ==
    CASE fk = "none" -> F(h, FALSE, plane, secs)
      [] fk = "UnionInit" -> Plain(UnionProcessInit(h, self, c), plane, secs)
      [] fk = "UnionAdd" -> Plain(UnionProcessAdd(h, self, c), plane, secs)
      [] fk = "DifferenceInit" -> Plain(DifferenceProcessInit(h, self, c), plane, secs)
      [] fk = "DifferenceAdd" -> Plain(DifferenceProcessAdd(h, self, c), plane, secs)
      [] fk = "IntersectionInit" ->
            NewPlane(IntersectionProcessInit(h, self, c, plane), plane, secs)
      [] fk = "IntersectionAdd" ->
            NewPlane(IntersectionProcessAdd(h, self, c, plane), plane, secs)
      [] fk = "Loft" -> NewSection(LoftProcess(h, self, c), plane, secs)

(***************************************************************************)
(* Component.copy with the _copy_to of each class, and                     *)
(* ComponentWithChildren._add_children.  An object that a raise leaves     *)
(* unreferenced (a copy whose callback raised, a composite that raised     *)
(* before it got a child) is dropped from the heap; such objects are       *)
(* always the last allocated.                                              *)
(***************************************************************************)
Truncate(h, n) == SubSeq(h, 1, n)

\* Mutant: an attached child is attached again without being copied.
NeedsCopy_never(h, c) == FALSE

\* if child.parent is not None: child = child.copy()
NeedsCopy(h, c) == h[c].parent # 0

\* The bodies a node shows in the frame of its parent: what child.bodies()
\* returns inside func(child), when the child has no parent yet and its
\* caches are clear.
BodiesAtAttach(h, c) ==
    IF h[c].raw = None THEN <<>> ELSE TransformAll(h[c].raw[1], h[c].local)

\* [brep().copy(body) for body in self.bodies()]
CopiedBodies(b) == R(b.h, Some(b.v), b.err)

\* The geometry _copy_to hands to the copy: Shape, Union and Loft copy
\* _body; Difference and Intersection copy what bodies() returns.
CopiedGeometry(h, n) ==
    IF h[n].kind \in {"Difference", "Intersection"}
    THEN CopiedBodies(Bodies(h, n))
    ELSE R(h, h[n].raw, h[n].raw = None)

RECURSIVE Copy(_, _)
RECURSIVE CopyAll(_, _, _, _)
RECURSIVE AddLoop(_, _, _, _, _, _, _)

\* child._parent = self; self._children.append(child), or the raise of
\* func(child) (f), which leaves a copy unreferenced.
Link(f, c, copied, self, cs, i, fk) ==
    IF f.err
    THEN F(IF copied THEN Truncate(f.h, c - 1) ELSE f.h, TRUE, f.plane, f.secs)
    ELSE AddLoop([f.h EXCEPT ![c].parent = self,
                             ![self].children = Append(@, c)],
                 self, cs, i + 1, fk, f.plane, f.secs)

\* func(child) on the heap h2 that the reset of the child left.
Process(h2, c, copied, self, cs, i, fk, plane, secs) ==
    Link(ProcessChild(h2, self, c, fk, plane, secs), c, copied, self, cs, i, fk)

\* child._local_transform.transformBy(self._inverse_transform())
\* child._reset_cache()
Localise(inv, c) ==
    ResetCache([inv.h EXCEPT ![c].local = TransformBy(@, inv.v)], c)

\* The body of the loop for child c.
Attach(h, c, copied, self, cs, i, fk, plane, secs) ==
    Process(Localise(InverseTransform(h, self), c),
            c, copied, self, cs, i, fk, plane, secs)

\* The body of the loop for the copy k.v of the child.
AttachCopy(k, self, cs, i, fk, plane, secs) ==
    IF k.err THEN F(k.h, TRUE, plane, secs)
    ELSE Attach(k.h, k.v, TRUE, self, cs, i, fk, plane, secs)

\* _add_children(children, func) from child i on.
AddLoop(h, self, cs, i, fk, plane, secs) ==
    IF i > Len(cs) THEN F(ResetCache(h, self), FALSE, plane, secs)
    ELSE IF NeedsCopy(h, cs[i])
         THEN AttachCopy(Copy(h, cs[i]), self, cs, i, fk, plane, secs)
         ELSE Attach(h, cs[i], FALSE, self, cs, i, fk, plane, secs)

\* [child.copy() for child in self._children]: v is the list of copies.
CopyNext(c, kids, i, acc) ==
    IF c.err THEN R(c.h, acc, TRUE)
    ELSE CopyAll(c.h, kids, i + 1, Append(acc, c.v))

CopyAll(h, kids, i, acc) ==
    IF i > Len(kids) THEN R(h, acc, FALSE)
    ELSE CopyNext(Copy(h, kids[i]), kids, i, acc)

\* What copy() returns after copy._add_children (a) of _copy_to.
Copied(a, new) ==
    IF a.err THEN R(Truncate(a.h, new - 1), 0, TRUE) ELSE R(a.h, new, FALSE)

\* ComponentWithChildren._copy_to on the copies ks.v of the children.
CopyAttach(ks, new) ==
    IF ks.err THEN R(Truncate(ks.h, new - 1), 0, TRUE)
    ELSE Copied(AddLoop(ks.h, new, ks.v, 1, "none", None, <<>>), new)

\* _copy_to after the copy (new) got its geometry: Shape has no children.
CopyChildren(h, n, new) ==
    IF ~IsComposite(h, n) THEN R(h, new, FALSE)
    ELSE CopyAttach(CopyAll(h, Children(h, n), 1, <<>>), new)

\* The copy with the local transform and the geometry g.v.
CopyWith(g, local, n) ==
    IF g.err THEN R(g.h, 0, TRUE)
    ELSE CopyChildren(Append(g.h, [NewObject(g.h[n].kind, g.v)
                                      EXCEPT !.local = local]),
                      n, Len(g.h) + 1)

\* Mutant: copy returns the object it was called on.
CopyFrom_self(w, n) == R(w.h, n, FALSE)

\* copy._local_transform = self._get_world_transform() (w)
CopyFrom(w, n) == CopyWith(CopiedGeometry(w.h, n), w.v, n)

Copy(h, n) == CopyFrom(GetWorldTransform(h, n), n)

AddChildren(h, self, cs, fk, plane) == AddLoop(h, self, cs, 1, fk, plane, <<>>)

(***************************************************************************)
(* The constructors.  v is the new object, 0 when a raise left none.       *)
(***************************************************************************)
\* Box.__init__ / Rect.__init__ (Cylinder and Sphere are solids like Box,
\* Circle is planar like Rect).
NewLeaf(h, kind) ==
    Append(h, NewObject(kind, Some(<<IF kind = "Box" THEN BoxBody ELSE RectBody>>)))

\* What a constructor that raised leaves: the half-built composite stays
\* reachable through the parent reference of the children it attached.
Abandon(h, self) ==
    IF Len(h[self].children) = 0 THEN R(Truncate(h, self - 1), 0, TRUE)
    ELSE R(h, self, TRUE)

\* The new composite after _add_children (a).
Built(a, self) == IF a.err THEN Abandon(a.h, self) ELSE R(a.h, self, FALSE)

\* Union.__init__, Difference.__init__, Intersection.__init__
NewCsg(h, kind, cs) ==
    Built(AddChildren(Append(h, NewObject(kind, None)), Len(h) + 1, cs,
                      CASE kind = "Union" -> "UnionInit"
                        [] kind = "Difference" -> "DifferenceInit"
                        [] kind = "Intersection" -> "IntersectionInit",
                      None),
          Len(h) + 1)

\* The loft feature over loft_sections (a.secs): it needs at least two of
\* them; its result becomes _body.
Lofted(a, self) ==
    IF a.err \/ Len(a.secs) < 2 THEN Abandon(a.h, self)
    ELSE R([a.h EXCEPT ![self].raw = Some(<<LoftBody(a.secs)>>)], self, FALSE)

\* Loft.__init__
NewLoft(h, cs) ==
    Lofted(AddChildren(Append(h, NewObject("Loft", None)), Len(h) + 1, cs,
                       "Loft", None),
           Len(h) + 1)

Construct(h, kind, cs) ==
    IF kind = "Loft" THEN NewLoft(h, cs) ELSE NewCsg(h, kind, cs)

\* add returns self.
Added(a, self) == R(a.h, self, a.err)

\* plane = self.get_plane() (p), then _add_children.
AddWithPlane(p, self, cs) ==
    Added(AddChildren(p.h, self, cs, "IntersectionAdd", p.v), self)

\* Union.add, Difference.add, Intersection.add (Loft has none).
Add(h, self, cs) ==
    CASE h[self].kind = "Union" ->
            Added(AddChildren(h, self, cs, "UnionAdd", None), self)
      [] h[self].kind = "Difference" ->
            Added(AddChildren(h, self, cs, "DifferenceAdd", None), self)
      [] h[self].kind = "Intersection" ->
            AddWithPlane(GetPlane(h, self), self, cs)

(***************************************************************************)
(* The transforms: each composes a matrix into the local transform and     *)
(* resets the caches of the subtree.                                       *)
(***************************************************************************)
Moved(h, n, m) == ResetCache([h EXCEPT ![n].local = TransformBy(@, m)], n)

\* Component.translate(tz=tz)
Translate(h, n, tz) == Moved(h, n, TranslationMatrix(tz))

\* Component.place(z=Translation with z component tz)
Place(h, n, tz) == Moved(h, n, TranslationMatrix(tz))

\* Component.rotate(rx=180, center=(0, 0, cz)); an angle of 0 only resets.
Rotate(h, n, rx, cz) ==
    IF rx = 0 THEN ResetCache(h, n) ELSE Moved(h, n, HalfTurn(cz))

\* The local transform after translation.invert(), scale, translation
\* back, for the center (0, 0, cz).
ScaledLocal(l, s, cz) ==
    TransformBy(TransformBy(TransformBy(l, Invert(TranslationMatrix(cz))),
                            ScaleMatrix(s)),
                TranslationMatrix(cz))

\* Component.scale(s, s, s, center=(0, 0, cz)) for |s| = 1.
Scale(h, n, s, cz) ==
    ResetCache([h EXCEPT ![n].local = ScaledLocal(@, s, cz)], n)

(***************************************************************************)
(* The state machine: one action per public operation of a design script.  *)
(* last describes the operation that led to the state: its name, the kind  *)
(* of object it built or was called on, the object it was called on (for   *)
(* copy, the source), its arguments, the object it returned (0 if none),   *)
(* whether it raised, and hot: whether a cache of a proper descendant of   *)
(* node was filled when it was called.                                     *)
(***************************************************************************)
Op(op, kind, node, args, res, err, hot) ==
    [op |-> op, kind |-> kind, node |-> node, args |-> args, res |-> res,
     err |-> err, hot |-> hot]

HasCache(o) == o.cw # None \/ o.cb # None \/ o.cbb # None \/ o.ci # None \/ o.cpp

Hot(h, n) == \E d \in Subtree(h, n) \ {n} : HasCache(h[d])

ArgSeqs(h, lo) ==
    UNION {[1..k -> Nodes(h)] : k \in lo..MaxArgs}

\* An add that would make a node its own ancestor (a parentless argument
\* that is the composite itself or one of its ancestors) is not explored.
AcyclicArgs(h, self, cs) ==
    \A i \in 1..Len(cs) :
        h[cs[i]].parent = 0 => cs[i] \notin ({self} \cup Ancestors(h, self))

\* The arguments the transforms are explored with.
TranslateArgs == {1}
PlaceArgs == {-1}
RotateCenters == {1}
ScaleCenters == {0}

\* The scripts explored start with the leaf shapes they build on: one to
\* InitLeaves primitives, each as its constructor leaves it.
RECURSIVE LeafHeap(_, _)
LeafHeap(ks, i) ==
    IF i = 0 THEN <<>> ELSE NewLeaf(LeafHeap(ks, i - 1), ks[i])

InitHeaps ==
    UNION {{LeafHeap(ks, k) : ks \in [1..k -> LeafKinds]} : k \in 1..InitLeaves}

NoProbe == [kind |-> "none"]

Init ==
    /\ heap \in InitHeaps
    /\ last = Op("init", "", 0, <<>>, 0, FALSE, FALSE)
    /\ nops = 0
    /\ probe = NoProbe

\* The value a query returned is not kept: v becomes the object queried.
OnNode(r, n) == R(r.h, n, r.err)

\* One operation: r is what it returned (heap, object, raised).  node is
\* the object it was called on, or 0 for the object it returned.
Step(r, op, kind, node, args, hot) ==
    /\ nops < MaxOps
    /\ probe = NoProbe
    /\ Len(r.h) <= MaxNodes
    /\ heap' = r.h
    /\ last' = Op(op, kind, IF node = 0 THEN r.v ELSE node, args, r.v, r.err, hot)
    /\ nops' = nops + 1
    /\ probe' = probe

DoNewLeaf(kind) ==
    Step(R(NewLeaf(heap, kind), Len(heap) + 1, FALSE), "leaf", kind, 0, <<>>, FALSE)

DoConstruct(kind, cs) ==
    Step(Construct(heap, kind, cs), "construct", kind, 0, cs, FALSE)

DoAdd(n, cs) ==
    /\ heap[n].kind \in CsgKinds
    /\ AcyclicArgs(heap, n, cs)
    /\ Step(Add(heap, n, cs), "add", heap[n].kind, n, cs, Hot(heap, n))

DoTranslate(n, tz) ==
    Step(R(Translate(heap, n, tz), n, FALSE), "translate", heap[n].kind, n, <<>>,
         Hot(heap, n))

DoPlace(n, tz) ==
    Step(R(Place(heap, n, tz), n, FALSE), "place", heap[n].kind, n, <<>>, Hot(heap, n))

DoRotate(n, cz) ==
    Step(R(Rotate(heap, n, 180, cz), n, FALSE), "rotate", heap[n].kind, n, <<>>,
         Hot(heap, n))

DoScale(n, cz) ==
    Step(R(Scale(heap, n, -1, cz), n, FALSE), "scale", heap[n].kind, n, <<>>,
         Hot(heap, n))

DoCopy(n) ==
    Step(Copy(heap, n), "copy", heap[n].kind, n, <<>>, Hot(heap, n))

DoBodies(n) ==
    Step(OnNode(Bodies(heap, n), n), "bodies", heap[n].kind, n, <<>>, Hot(heap, n))

DoBoundingBox(n) ==
    Step(OnNode(BoundingBox(heap, n), n), "min", heap[n].kind, n, <<>>, Hot(heap, n))

DoGetPlane(n) ==
    Step(OnNode(GetPlane(heap, n), n), "get_plane", heap[n].kind, n, <<>>, Hot(heap, n))

Next ==
    \/ \E kind \in LeafKinds : DoNewLeaf(kind)
    \/ \E kind \in CompositeKinds : \E cs \in ArgSeqs(heap, 0) : DoConstruct(kind, cs)
    \/ \E n \in Nodes(heap) : \E cs \in ArgSeqs(heap, 1) : DoAdd(n, cs)
    \/ \E n \in Nodes(heap) : \E tz \in TranslateArgs : DoTranslate(n, tz)
    \/ \E n \in Nodes(heap) : \E tz \in PlaceArgs : DoPlace(n, tz)
    \/ \E n \in Nodes(heap) : \E cz \in RotateCenters : DoRotate(n, cz)
    \/ \E n \in Nodes(heap) : \E cz \in ScaleCenters : DoScale(n, cz)
    \/ \E n \in Nodes(heap) : DoCopy(n)
    \/ \E n \in Nodes(heap) : DoBodies(n)
    \/ \E n \in Nodes(heap) : DoBoundingBox(n)
    \/ \E n \in Nodes(heap) : DoGetPlane(n)

Spec == Init /\ [][Next]_vars

(***************************************************************************)
(* Two scripts run side by side from the same state.  probe holds what     *)
(* each of them observed; the scripts work on their own heaps, so the      *)
(* objects of the state are the same at the start of both.                 *)
(***************************************************************************)
\* The transforms a script applies, in order.
MoveSet ==
    {[op |-> "translate", arg |-> 1], [op |-> "rotate", arg |-> 1],
     [op |-> "scale", arg |-> 0]}

\* One move, or a translation and a turn or mirroring in either order.
MoveSeqs ==
    {<<m>> : m \in MoveSet}
        \cup {<<m, n>> : m \in {x \in MoveSet : x.op = "translate"},
                         n \in {x \in MoveSet : x.op # "translate"}}
        \cup {<<n, m>> : m \in {x \in MoveSet : x.op = "translate"},
                         n \in {x \in MoveSet : x.op # "translate"}}

ApplyMove(h, n, mv) ==
    CASE mv.op = "translate" -> Translate(h, n, mv.arg)
      [] mv.op = "rotate" -> Rotate(h, n, 180, mv.arg)
      [] mv.op = "scale" -> Scale(h, n, -1, mv.arg)

\* node.<move 1>(...).<move 2>(...)
RECURSIVE ApplyMoves(_, _, _, _)
ApplyMoves(h, n, ms, i) ==
    IF i > Len(ms) THEN h ELSE ApplyMoves(ApplyMove(h, n, ms[i]), n, ms, i + 1)

\* for c in cs: c.<moves>
RECURSIVE MoveEach(_, _, _, _)
MoveEach(h, cs, ms, i) ==
    IF i > Len(cs) THEN h ELSE MoveEach(ApplyMoves(h, cs[i], ms, 1), cs, ms, i + 1)

\* [c._get_world_transform() for c in kids]
RECURSIVE WorldsOf(_, _, _)
WorldsNext(w, kids, i) == <<w.v>> \o WorldsOf(w.h, kids, i + 1)

WorldsOf(h, kids, i) ==
    IF i > Len(kids) THEN <<>>
    ELSE WorldsNext(GetWorldTransform(h, kids[i]), kids, i)

Raised == [err |-> TRUE]

\* What a script reads off a composite: bodies(), the bounding box behind
\* min()/max(), and the world transform of each child.
Observed(b, bb, n) ==
    [err |-> FALSE, bodies |-> b.v, noBodies |-> b.err,
     box |-> bb.v, noBox |-> bb.err,
     worlds |-> WorldsOf(bb.h, Children(bb.h, n), 1)]

ObserveBox(b, n) == Observed(b, BoundingBox(b.h, n), n)

Observe(h, n) == ObserveBox(Bodies(h, n), n)

\* x.bodies(); x.min()
Queried(h, n) == BoundingBox(Bodies(h, n).h, n).h

\* [x.bodies(); x.min();] x.<moves>; observe x, for the x that c returned.
MovedAfter(c, ms, q) ==
    IF c.err THEN Raised
    ELSE Observe(ApplyMoves(IF q THEN Queried(c.h, c.v) ELSE c.h, c.v, ms, 1), c.v)

\* x = Kind(*cs); [x.bodies(); x.min()]; x.<moves>; observe x
MoveAfter(h, kind, cs, ms, q) == MovedAfter(Construct(h, kind, cs), ms, q)

\* observe x, for the x that c returned.
Seen(c) == IF c.err THEN Raised ELSE Observe(c.h, c.v)

\* for c in cs: c.<moves>; x = Kind(*cs); observe x
MoveBefore(h, kind, cs, ms) == Seen(Construct(MoveEach(h, cs, ms, 1), kind, cs))

\* What Kind(*cs) shows before it is moved.
Unmoved(h, kind, cs) == Seen(Construct(h, kind, cs))

\* The state a script leaves behind in a composite.
Outcome(r) ==
    IF r.err THEN Raised
    ELSE [err |-> FALSE, children |-> r.h[r.v].children, raw |-> r.h[r.v].raw,
          plane |-> GetPlane(r.h, r.v).v]

\* x.add(*rest), for the x that c returned.
SplitAdd(c, rest) == IF c.err THEN Raised ELSE Outcome(Add(c.h, c.v, rest))

\* x = Kind(*cs[:k]); x.add(*cs[k:])
SplitBuild(h, kind, cs, k) ==
    SplitAdd(Construct(h, kind, SubSeq(cs, 1, k)), SubSeq(cs, k + 1, Len(cs)))

\* x = Kind(*cs)
WholeBuild(h, kind, cs) == Outcome(Construct(h, kind, cs))

\* The children the scripts build from: distinct objects without a parent.
FreshArgs(h, cs) ==
    /\ \A i \in 1..Len(cs) : h[cs[i]].parent = 0
    /\ \A i, j \in 1..Len(cs) : i # j => cs[i] # cs[j]

DoTwinMove(kind, cs, ms, q) ==
    /\ nops < TwinOps
    /\ probe = NoProbe
    /\ FreshArgs(heap, cs)
    /\ probe' = [kind |-> "move", op |-> kind, cached |-> q, moves |-> ms,
                 unmoved |-> Unmoved(heap, kind, cs),
                 after |-> MoveAfter(heap, kind, cs, ms, q),
                 before |-> MoveBefore(heap, kind, cs, ms)]
    /\ UNCHANGED <<heap, last, nops>>

DoTwinSplit(kind, cs, k) ==
    /\ nops < TwinOps
    /\ probe = NoProbe
    /\ FreshArgs(heap, cs)
    /\ k \in 0..Len(cs)
    /\ probe' = [kind |-> "split", op |-> kind, k |-> k, n |-> Len(cs),
                 split |-> SplitBuild(heap, kind, cs, k),
                 whole |-> WholeBuild(heap, kind, cs)]
    /\ UNCHANGED <<heap, last, nops>>

NextTwin ==
    \/ nops < TwinOps /\ Next
    \/ \E kind \in CompositeKinds : \E cs \in ArgSeqs(heap, 1) :
          \E ms \in MoveSeqs : \E q \in BOOLEAN : DoTwinMove(kind, cs, ms, q)
    \/ \E kind \in CsgKinds : \E cs \in ArgSeqs(heap, 1) :
          \E k \in 0..MaxArgs : DoTwinSplit(kind, cs, k)

SpecTwin == Init /\ [][NextTwin]_vars

(***************************************************************************)
(* What a node's caches have to hold, recomputed from the tree as it is.   *)
(***************************************************************************)
RECURSIVE TrueWorld(_, _)
TrueWorld(h, n) ==
    IF h[n].parent = 0 THEN h[n].local
    ELSE TransformBy(h[n].local, TrueWorld(h, h[n].parent))

FreshBodies(h, n) == TransformAll(h[n].raw[1], TrueWorld(h, n))

RECURSIVE TruePlane(_, _)
TruePlane(h, n) ==
    LET kids == h[n].children
        planar == {i \in 1..Len(kids) : TruePlane(h, kids[i]) # None}
    IN CASE h[n].kind = "Rect" -> Some(PlaneOfFace(FreshBodies(h, n)[1]))
         [] h[n].kind \in {"Union", "Difference"} ->
               IF Len(kids) = 0 THEN None ELSE TruePlane(h, kids[1])
         [] h[n].kind = "Intersection" ->
               IF planar = {} THEN None ELSE TruePlane(h, kids[SetMin(planar)])
         [] OTHER -> None

Moves == {"translate", "rotate", "scale", "place"}

(***************************************************************************)
(* C1: in every reachable state, the world transform returned for a node   *)
(* is its local transform composed with the world transform returned for   *)
(* its parent (local first), and its local transform if it has no parent.  *)
(***************************************************************************)
C1_WorldTransformComposes ==
    \A n \in Nodes(heap) :
        GetWorldTransform(heap, n).v =
            IF heap[n].parent = 0 THEN heap[n].local
            ELSE TransformBy(heap[n].local, GetWorldTransform(heap, heap[n].parent).v)

(***************************************************************************)
(* C2: when a constructor or add returns, every child it attached has the  *)
(* local transform C o inverse(W) and again the world transform C, where C *)
(* was the world transform of the argument and W is that of the composite. *)
(***************************************************************************)
AttachKeepsPose(h, l, h2) ==
    LET self == l.node
        old == IF l.op = "add" THEN Len(h[self].children) ELSE 0
        W == TrueWorld(h2, self)
    IN \A i \in 1..Len(l.args) :
          LET c == h2[self].children[old + i]
              C == TrueWorld(h, l.args[i])
          IN /\ h2[c].local = TransformBy(C, Invert(W))
             /\ TrueWorld(h2, c) = C

C2_AttachKeepsWorldPose ==
    [][(last'.op \in {"construct", "add"} /\ ~last'.err)
          => AttachKeepsPose(heap, last', heap')]_vars

(***************************************************************************)
(* C3: copy() returns a parentless node whose local transform is the       *)
(* source's world transform and whose bodies() equal the source's.         *)
(***************************************************************************)
C3_CopySamePose ==
    (last.op = "copy" /\ ~last.err) =>
        /\ heap[last.res].parent = 0
        /\ heap[last.res].kind = heap[last.node].kind
        /\ heap[last.res].local = TrueWorld(heap, last.node)
        /\ Bodies(heap, last.res).v = Bodies(heap, last.node).v

(***************************************************************************)
(* C4: every node is in the children list of at most one composite, once,  *)
(* and its parent reference is that composite (None if it is in no list);  *)
(* a constructor or add leaves every node that had a parent with that      *)
(* parent, changes no other composite's children, and attaches only        *)
(* arguments that had no parent or objects it has just created.            *)
(***************************************************************************)
Owners(h, n) == {p \in Nodes(h) : \E i \in 1..Len(h[p].children) : h[p].children[i] = n}

SingleOwner(h) ==
    \A n \in Nodes(h) :
        IF h[n].parent = 0 THEN Owners(h, n) = {}
        ELSE /\ Owners(h, n) = {h[n].parent}
             /\ Cardinality({i \in 1..Len(h[h[n].parent].children) :
                                h[h[n].parent].children[i] = n}) = 1

AttachCopies(h, l, h2) ==
    /\ Len(h2) >= Len(h)
    /\ \A n \in Nodes(h) :
          /\ h[n].parent # 0 => h2[n].parent = h[n].parent
          /\ (l.op = "construct" \/ n # l.node) => h2[n].children = h[n].children
    /\ \A p \in Nodes(h2) : \A i \in 1..Len(h2[p].children) :
          LET c == h2[p].children[i]
          IN (p \notin Nodes(h) \/ i > Len(h[p].children)) =>
                \/ c \notin Nodes(h)
                \/ h[c].parent = 0 /\ c \in Range(l.args)

C4_SingleOwner ==
    /\ []SingleOwner(heap)
    /\ [][last'.op \in {"construct", "add"} => AttachCopies(heap, last', heap')]_vars

C4_Witness ==
    /\ last.op \in {"construct", "add"}
    /\ ~last.err
    /\ \E i \in 1..Len(last.args) :
          /\ heap[last.args[i]].parent \notin {0, last.node}
          /\ last.args[i] \notin Range(heap[last.node].children)
          /\ \E c \in Range(heap[last.node].children) :
                heap[c].kind = heap[last.args[i]].kind

(***************************************************************************)
(* C5: when translate, rotate, scale or place on a node returns, the       *)
(* cached world transform, bodies and bounding box of the node and of      *)
(* every descendant are cleared, and so are the cached inverse transform   *)
(* of the composites and the cached plane of the Intersections among them. *)
(***************************************************************************)
Cleared(o) ==
    /\ o.cw = None /\ o.cb = None /\ o.cbb = None /\ o.ci = None
    /\ o.cp = None /\ ~o.cpp

C5_TransformClearsSubtree ==
    (last.op \in Moves /\ ~last.err) =>
        \A d \in Subtree(heap, last.node) : Cleared(heap[d])

C5_Witness ==
    /\ last.op \in Moves
    /\ last.hot
    /\ Len(heap[last.node].children) > 0

(***************************************************************************)
(* C6: a composite built from children and then moved shows the same       *)
(* bodies, the same bounding box and the same world transform of each      *)
(* child as a composite of the same kind built from the children after     *)
(* each of them was moved the same way, also when bodies() and min() were  *)
(* called on it before the move.                                           *)
(***************************************************************************)
C6_MoveAfterEqualsMoveBefore ==
    probe.kind = "move" => probe.after = probe.before

C6_Witness ==
    /\ probe.kind = "move"
    /\ probe.cached
    /\ ~probe.after.err
    /\ ~probe.after.noBodies /\ ~probe.after.noBox
    /\ Len(probe.after.worlds) = MaxArgs
    /\ probe.after.bodies # probe.unmoved.bodies
    /\ probe.after.box # probe.unmoved.box

(***************************************************************************)
(* C7: every populated cache of every node (world transform, bodies,       *)
(* bounding box) holds the value that a recomputation from the current     *)
(* tree and the current folded geometry returns.                           *)
(***************************************************************************)
FreshBox(h, n) == ExactBoundingBox(FreshBodies(h, n), 1)

CachesFresh(h, n) ==
    /\ h[n].cw # None => h[n].cw[1] = TrueWorld(h, n)
    /\ h[n].cb # None => h[n].raw # None /\ h[n].cb[1] = FreshBodies(h, n)
    /\ h[n].cbb # None => h[n].raw # None /\ h[n].cbb[1] = FreshBox(h, n)

C7_PopulatedCachesFresh == \A n \in Nodes(heap) : CachesFresh(heap, n)

(***************************************************************************)
(* C8: the folded result of every Union, Difference and Intersection is    *)
(* the fold, in insertion order, of the bodies its children have now in    *)
(* its local frame.                                                        *)
(***************************************************************************)
\* The bodies of the children after the first, as a set.
ToolBodies(lists) == UNION {Range(lists[i]) : i \in 2..Len(lists)}

AllBodies(lists) == UNION {Range(lists[i]) : i \in 1..Len(lists)}

\* The operator-specific fold of the children's body lists.
ExpectedFold(kind, lists) ==
    CASE kind = "Union" ->
            IF AllBodies(lists) = {} THEN None ELSE Some(<<UNION AllBodies(lists)>>)
      [] kind = "Difference" ->
            IF Len(lists) = 0 THEN None
            ELSE Some(AsList([i \in 1..Len(lists[1]) |->
                                 lists[1][i] \ UNION ToolBodies(lists)]))
      [] kind = "Intersection" ->
            IF Len(lists) = 0 THEN None
            ELSE Some(AsList([i \in 1..Len(lists[1]) |->
                                 {z \in lists[1][i] : \A t \in ToolBodies(lists) : z \in t}]))

\* The bodies the children from the i-th on show in the frame of n.
ChildBodies(h, n, i) ==
    AsList([j \in 1..(Len(h[n].children) - i + 1) |->
               BodiesAtAttach(h, h[n].children[i + j - 1])])

CurrentFold(h, n) == ExpectedFold(h[n].kind, ChildBodies(h, n, 1))

C8_FoldOfCurrentChildren ==
    \A n \in Nodes(heap) : heap[n].kind \in CsgKinds => heap[n].raw = CurrentFold(heap, n)

(***************************************************************************)
(* C8 as amended: a constructor or add that returns leaves the folded      *)
(* result equal to the fold, in insertion order, of the bodies that the    *)
(* children it attached have in the composite's local frame (for add,      *)
(* folded into the previous result), and changes no other folded result;   *)
(* translate, rotate, scale and place change no folded result, so a result *)
(* is not folded again when an attached child is moved.                    *)
(***************************************************************************)
\* The previous result raw with the new children's bodies folded in.
FoldedMore(kind, raw, lists) ==
    CASE kind = "Union" ->
            IF AllBodies(lists) = {} THEN raw
            ELSE Some(<<raw[1][1] \cup UNION AllBodies(lists)>>)
      [] kind = "Difference" ->
            Some(AsList([i \in 1..Len(raw[1]) |-> raw[1][i] \ UNION AllBodies(lists)]))
      [] kind = "Intersection" ->
            Some(AsList([i \in 1..Len(raw[1]) |->
                            {z \in raw[1][i] : \A t \in AllBodies(lists) : z \in t}]))

FoldsWhenAttached(h, l, h2) ==
    /\ (l.op = "construct" /\ l.kind \in CsgKinds /\ ~l.err) =>
          h2[l.res].raw = CurrentFold(h2, l.res)
    /\ (l.op = "add" /\ ~l.err) =>
          h2[l.node].raw =
              FoldedMore(l.kind, h[l.node].raw,
                         ChildBodies(h2, l.node, Len(h[l.node].children) + 1))
    /\ \A n \in Nodes(h) : (l.op # "add" \/ n # l.node) => h2[n].raw = h[n].raw

C8_FoldAtAttach == [][FoldsWhenAttached(heap, last', heap')]_vars

C8_Witness ==
    /\ last.op \in Moves
    /\ heap[last.node].parent # 0
    /\ heap[heap[last.node].parent].kind \in CsgKinds
    /\ heap[heap[last.node].parent].raw # CurrentFold(heap, heap[last.node].parent)
    /\ heap[heap[last.node].parent].raw # None

(***************************************************************************)
(* C9: for Union, Difference and Intersection, building from the first k   *)
(* children and adding the rest ends as building from all of them does:    *)
(* the same children in the same order, the same folded result, the same   *)
(* plane, and an error in the one exactly when in the other.               *)
(***************************************************************************)
C9_SplitEqualsWhole ==
    probe.kind = "split" => probe.split = probe.whole

(***************************************************************************)
(* C10: a Union that has accumulated a body raises for an incoming child   *)
(* when exactly one of the union's plane and the child's plane is absent   *)
(* or when the two planes are not coplanar, and then the child is neither  *)
(* folded into the result nor appended to the children.                    *)
(***************************************************************************)
HasBodies(h, n) == h[n].raw # None /\ Len(h[n].raw[1]) > 0

UnionRejects(h, l, h2) ==
    /\ (/\ l.op = "add" /\ l.kind = "Union"
        /\ h[l.node].raw # None
        /\ UnionMismatch(TruePlane(h, l.node), TruePlane(h, l.args[1])))
          => /\ l.err
             /\ h2[l.node].children = h[l.node].children
             /\ h2[l.node].raw = h[l.node].raw
    /\ (/\ l.op = "construct" /\ l.kind = "Union" /\ Len(l.args) > 1
        /\ HasBodies(h, l.args[1])
        /\ UnionMismatch(TruePlane(h, l.args[1]), TruePlane(h, l.args[2])))
          => /\ l.err
             /\ l.res # 0
             /\ Len(h2[l.res].children) = 1
             /\ h2[l.res].raw = ExpectedFold("Union", <<FreshBodies(h, l.args[1])>>)

C10_UnionRejectsMismatch == [][UnionRejects(heap, last', heap')]_vars

(***************************************************************************)
(* C11: a Difference whose target set is non-empty raises for an incoming  *)
(* child as a Union does: when exactly one of the first child's plane and  *)
(* the incoming child's plane is absent (planar from solid, solid from     *)
(* planar), or when both are present and not coplanar; a Difference with   *)
(* an empty target set accepts a planar child.                             *)
(***************************************************************************)
DifferenceRejects(h, l, h2) ==
    /\ (/\ l.op = "add" /\ l.kind = "Difference"
        /\ HasBodies(h, l.node)
        /\ UnionMismatch(TruePlane(h, l.node), TruePlane(h, l.args[1])))
          => l.err
    /\ (/\ l.op = "construct" /\ l.kind = "Difference" /\ Len(l.args) > 1
        /\ HasBodies(h, l.args[1])
        /\ UnionMismatch(TruePlane(h, l.args[1]), TruePlane(h, l.args[2])))
          => l.err
    /\ (/\ l.op = "construct" /\ l.kind = "Difference" /\ Len(l.args) = 1
        /\ HasBodies(h, l.args[1]))
          => ~l.err

C11_DifferenceRejectsMismatch == [][DifferenceRejects(heap, last', heap')]_vars

(***************************************************************************)
(* C12: an Intersection that has accumulated bodies checks an incoming     *)
(* child against the first non-null plane among its children in insertion  *)
(* order: the child is rejected exactly when it has a plane, such a plane  *)
(* is established, and the two are not coplanar; a child without a plane   *)
(* is never rejected.                                                      *)
(***************************************************************************)
IntersectionChecks(h, l, h2) ==
    /\ (/\ l.op = "add" /\ l.kind = "Intersection" /\ Len(l.args) = 1
        /\ HasBodies(h, l.node) /\ HasBodies(h, l.args[1]))
          => (l.err <=> IntersectionMismatch(TruePlane(h, l.node),
                                             TruePlane(h, l.args[1])))
    /\ (/\ l.op = "construct" /\ l.kind = "Intersection" /\ Len(l.args) = 2
        /\ HasBodies(h, l.args[1]) /\ HasBodies(h, l.args[2]))
          => (l.err <=> IntersectionMismatch(TruePlane(h, l.args[1]),
                                             TruePlane(h, l.args[2])))

C12_IntersectionFirstPlane == [][IntersectionChecks(heap, last', heap')]_vars

(***************************************************************************)
(* C13: get_plane() on a Union, Difference or Intersection returns what    *)
(* get_plane() returns for its first child in insertion order, and None    *)
(* when it has no children (a 3D first child has no plane).                *)
(***************************************************************************)
\* What get_plane() returns for each of the children kids.
PlanesOf(h, kids) == AsList([i \in 1..Len(kids) |-> GetPlane(h, kids[i]).v])

FirstChildPlane(h, n) ==
    IF Len(h[n].children) = 0 THEN None ELSE PlanesOf(h, h[n].children)[1]

C13_PlaneOfFirstChild ==
    \A n \in Nodes(heap) :
        heap[n].kind \in CsgKinds => GetPlane(heap, n).v = FirstChildPlane(heap, n)

(***************************************************************************)
(* C13 as amended: get_plane() on a Union or Difference returns what       *)
(* get_plane() returns for its first child (None without children); on an  *)
(* Intersection whose plane cache is clear it returns and caches the first *)
(* non-null plane that get_plane() returns for its children in insertion   *)
(* order (None if there is none), also when the first child has no plane;  *)
(* a populated plane cache is returned as it is.                           *)
(***************************************************************************)
FirstNonNull(ps) ==
    IF \A i \in 1..Len(ps) : ps[i] = None THEN None
    ELSE ps[SetMin({i \in 1..Len(ps) : ps[i] # None})]

C13_PlaneOfFirstPlanarChild ==
    \A n \in Nodes(heap) :
        /\ heap[n].kind \in {"Union", "Difference"} =>
              GetPlane(heap, n).v = FirstChildPlane(heap, n)
        /\ (heap[n].kind = "Intersection" /\ ~heap[n].cpp) =>
              /\ GetPlane(heap, n).v = FirstNonNull(PlanesOf(heap, heap[n].children))
              /\ GetPlane(heap, n).h[n].cpp
              /\ GetPlane(heap, n).h[n].cp = GetPlane(heap, n).v
        /\ (heap[n].kind = "Intersection" /\ heap[n].cpp) =>
              GetPlane(heap, n) = R(heap, heap[n].cp, FALSE)

C13_Witness ==
    \E n \in Nodes(heap) :
        /\ heap[n].kind = "Intersection"
        /\ Len(heap[n].children) = 2
        /\ TruePlane(heap, heap[n].children[1]) = None
        /\ heap[n].cpp
        /\ heap[n].cp # None
        /\ last.op = "get_plane" /\ last.node = n

(***************************************************************************)
(* C15: translate, rotate, scale and place on a node leave every node that *)
(* is neither the node nor one of its descendants as it was: its local     *)
(* transform, parent, children, folded result and each of its caches.      *)
(***************************************************************************)
OutsideUntouched(h, l, h2) ==
    l.op \in Moves =>
        /\ Len(h2) = Len(h)
        /\ \A n \in Nodes(h) \ Subtree(h, l.node) : h2[n] = h[n]

C15_NoUpwardInvalidation == [][OutsideUntouched(heap, last', heap')]_vars

C15_Witness ==
    /\ last.op \in Moves
    /\ heap[last.node].parent # 0
    /\ heap[heap[last.node].parent].cb # None
    /\ heap[heap[last.node].parent].cw # None

(***************************************************************************)
(* C17: the bounding box that min()/max()/size()/mid() report for a Union, *)
(* Difference or Intersection is the component-wise min/max union of the   *)
(* world-space bounding boxes of all its descendant leaf shapes, whenever  *)
(* a bounding box is reported.                                             *)
(***************************************************************************)
Leaves(h, n) == {d \in Subtree(h, n) : h[d].kind \in LeafKinds}

\* The levels the leaves below n occupy in world space.
LeafLevels(h, n) == UNION {UNION Range(FreshBodies(h, d)) : d \in Leaves(h, n)}

Extent(S) == IF S = {} THEN None ELSE Some([lo |-> SetMin(S), hi |-> SetMax(S)])

C17_BoxOfLeaves ==
    \A n \in Nodes(heap) :
        (heap[n].kind \in CsgKinds /\ Len(heap[n].children) > 0) =>
            \/ BoundingBox(heap, n).err
            \/ BoundingBox(heap, n).v = Extent(LeafLevels(heap, n))

(***************************************************************************)
(* C17 as amended: the bounding box reported for a node is the             *)
(* component-wise min/max union of the bounding boxes of the bodies that   *)
(* bodies() returns for it (for a composite: its folded result in world    *)
(* space); when bodies() raises, so does the bounding box query.           *)
(***************************************************************************)
C17_BoxOfBodies ==
    \A n \in Nodes(heap) :
        /\ Bodies(heap, n).err => BoundingBox(heap, n).err
        /\ ~BoundingBox(heap, n).err =>
              BoundingBox(heap, n).v = Extent(UNION Range(Bodies(heap, n).v))

C17_Witness ==
    /\ last.op = "min" /\ ~last.err
    /\ heap[last.node].kind \in {"Difference", "Intersection"}
    /\ Len(heap[last.node].children) > 1
    /\ heap[last.node].cbb # Extent(LeafLevels(heap, last.node))

(***************************************************************************)
(* Further scripts, each run once from a reachable state; probe holds what *)
(* the script was given and what it observed.                              *)
(***************************************************************************)
\* What a script reads off a node: its transforms, its place in the tree,
\* its owned geometry, and the same of every node below it.
Snapshot(h, n) ==
    [world |-> GetWorldTransform(h, n).v,
     tree |-> [d \in Subtree(h, n) |->
                  [local |-> h[d].local, parent |-> h[d].parent,
                   children |-> h[d].children, raw |-> h[d].raw]]]

\* What the script sees afterwards: the original again, and whether the
\* copy's subtree holds none of the objects that were there before.
IsolateSeen(r, n, old) ==
    [err |-> r.err, after |-> Snapshot(r.h, n),
     fresh |-> r.copy = 0 \/ Subtree(r.h, r.copy) \cap old = {}]

\* x.<moves> or c.<moves>, for the x that Kind(c) returned.
IsolatedIn(x, c, ms, onCopy) ==
    IF x.err THEN [err |-> TRUE, h |-> x.h, copy |-> c]
    ELSE [err |-> FALSE, copy |-> c,
          h |-> ApplyMoves(x.h, IF onCopy THEN c ELSE x.v, ms, 1)]

\* x = Kind(c), for the c that n.copy() returned.
Isolated(c, kind, ms, onCopy) ==
    IF c.err THEN [err |-> TRUE, h |-> c.h, copy |-> 0]
    ELSE IsolatedIn(Construct(c.h, kind, <<c.v>>), c.v, ms, onCopy)

\* c = n.copy(); x = Kind(c); x.<moves> (or c.<moves>)
DoIsolate(n, kind, ms, onCopy) ==
    /\ nops < TwinOps
    /\ probe = NoProbe
    /\ probe' = [kind |-> "isolate", node |-> n, op |-> kind, onCopy |-> onCopy,
                 before |-> Snapshot(heap, n),
                 seen |-> IsolateSeen(Isolated(Copy(heap, n), kind, ms, onCopy),
                                      n, Nodes(heap))]
    /\ UNCHANGED <<heap, last, nops>>

\* The factors and centres scale is called with.
ScaleFactors == {1, -1, 2}
ScaleAxesCenters == {0, 1}

Abs(x) == IF x < 0 THEN -x ELSE x

\* Mutant: scale without the test for uniform factors.
ScaleAxes_unchecked(h, n, sx, sy, sz, cz) == R(Scale(h, n, sz, cz), n, FALSE)

\* Component.scale(sx, sy, sz, center=(0, 0, cz)): the raise comes before
\* anything is changed.
ScaleAxes(h, n, sx, sy, sz, cz) ==
    IF Abs(sx) # Abs(sy) \/ Abs(sy) # Abs(sz) THEN R(h, n, TRUE)
    ELSE R(Scale(h, n, sz, cz), n, FALSE)

DoScaleAxes(n, sx, sy, sz, cz) ==
    /\ nops < TwinOps
    /\ probe = NoProbe
    /\ probe' = [kind |-> "scale", node |-> n, sx |-> sx, sy |-> sy, sz |-> sz,
                 cz |-> cz, ran |-> ScaleAxes(heap, n, sx, sy, sz, cz)]
    /\ UNCHANGED <<heap, last, nops>>

\* Loft(*cs): whether it raised, and the loft_sections it had collected.
DoLoftSections(cs) ==
    /\ nops < TwinOps
    /\ probe = NoProbe
    /\ FreshArgs(heap, cs)
    /\ probe' = [kind |-> "loft", args |-> cs, err |-> NewLoft(heap, cs).err,
                 secs |-> AddChildren(Append(heap, NewObject("Loft", None)),
                                      Len(heap) + 1, cs, "Loft", None).secs]
    /\ UNCHANGED <<heap, last, nops>>

\* A union whose two rectangles lie in different planes: Union(r1), turned
\* about a centre off its plane, then add(r2).
SkewedUnion ==
    Add(Rotate(Construct(LeafHeap(<<"Rect", "Rect">>, 2), "Union", <<1>>).h,
               3, 180, 1),
        3, <<2>>).h

(***************************************************************************)
(* Alignment by place, in three dimensions: a parentless box is its size,  *)
(* the translation it has been given, and its cached bounding box.         *)
(* Coordinates are floating-point numbers: binary, with SignificandBits    *)
(* bits, each sum and difference rounded to the nearest such number, a tie *)
(* to the even one.  They are counted in quarters of a unit, so that       *)
(* halving is exact, as it is in binary floating point.                    *)
(***************************************************************************)
SignificandBits == 3

BoxSizes == {<<4, 4, 4>>, <<4, 8, 12>>}
BoxPoses == {<<0, 0, 0>>, <<-4, 8, 4>>, <<28, -8, 0>>}

RECURSIVE Pow2(_)
Pow2(e) == IF e = 0 THEN 1 ELSE 2 * Pow2(e - 1)

\* The spacing of the floating-point numbers around v >= 0.
RECURSIVE Quantum(_, _)
Quantum(v, q) ==
    IF v \div q < Pow2(SignificandBits) THEN q ELSE Quantum(v, 2 * q)

\* v >= 0 rounded to a multiple of q, a tie to the even multiple.
RoundTo(v, q) ==
    IF 2 * (v % q) > q \/ (2 * (v % q) = q /\ (v \div q) % 2 = 1)
    THEN ((v \div q) + 1) * q
    ELSE (v \div q) * q

\* The floating-point number that a sum or difference of exact value v is.
Fl(v) ==
    IF v < 0 THEN 0 - RoundTo(0 - v, Quantum(0 - v, 1))
    ELSE RoundTo(v, Quantum(v, 1))

\* Box(x, y, z).translate(*at)
Box3(size, at) == [at |-> at, cbb |-> None, size |-> size]

\* p.vectorTo(q)
VectorTo(p, q) == <<Fl(q[1] - p[1]), Fl(q[2] - p[2]), Fl(q[3] - p[3])>>

\* The node once min(), max() or mid() has been asked of it.
Measured(n) ==
    IF n.cbb # None THEN n
    ELSE [n EXCEPT !.cbb = Some([maxPoint |-> <<Fl(n.at[1] + n.size[1]),
                                                Fl(n.at[2] + n.size[2]),
                                                Fl(n.at[3] + n.size[3])>>,
                                 minPoint |-> n.at])]

Min3(n) == Measured(n).cbb[1].minPoint
Max3(n) == Measured(n).cbb[1].maxPoint
Mid3(n) ==
    <<Fl(Min3(n)[1] + Max3(n)[1]) \div 2, Fl(Min3(n)[2] + Max3(n)[2]) \div 2,
      Fl(Min3(n)[3] + Max3(n)[3]) \div 2>>

\* Place(p) == Place(q)
PlaceEq(p, q) == VectorTo(p, q)

\* Mutant: place takes all three components from its first argument.
Place3_first(n, x, y, z) ==
    [n EXCEPT !.at = <<Fl(@[1] + x[1]), Fl(@[2] + x[2]), Fl(@[3] + x[3])>>,
              !.cbb = None]

\* Component.place(x, y, z)
Place3(n, x, y, z) ==
    [n EXCEPT !.at = <<Fl(@[1] + x[1]), Fl(@[2] + y[2]), Fl(@[3] + z[3])>>,
              !.cbb = None]

\* b.place(-b == +a, ~b == ~a, ~b == ~a)
Aligned(a, b) ==
    Place3(Measured(b), PlaceEq(Min3(b), Max3(a)), PlaceEq(Mid3(b), Mid3(a)),
           PlaceEq(Mid3(b), Mid3(a)))

\* a = Box(*sa).translate(*pa); b = Box(*sb).translate(*pb); the place.
DoAlign(sa, pa, sb, pb) ==
    /\ nops = 0
    /\ probe = NoProbe
    /\ probe' = [kind |-> "align", a |-> Box3(sa, pa), b |-> Box3(sb, pb),
                 placed |-> Aligned(Box3(sa, pa), Box3(sb, pb))]
    /\ UNCHANGED <<heap, last, nops>>

(***************************************************************************)
(* Cylinder: the body is the list of its faces, the side first and then    *)
(* the flat ends the kernel made, the end at the first point before the    *)
(* end at the second.                                                      *)
(***************************************************************************)
Heights == {1, 2}
Radii == {0, 1, 2}

Face(kind, z, r) == [kind |-> kind, z |-> z, r |-> r]

\* brep().createCylinderOrCone(point at z1, r1, point at z2, r2); r1 and r2
\* are None or Some(radius).  No radius, or no end with a radius, raises.
CreateCylinderOrCone(z1, r1, z2, r2) ==
    IF r1 = None \/ r2 = None \/ (r1[1] = 0 /\ r2[1] = 0) THEN R(<<>>, <<>>, TRUE)
    ELSE R(<<>>,
           <<Face("side", z1, 0)>>
               \o (IF r1[1] > 0 THEN <<Face("end", z1, r1[1])>> ELSE <<>>)
               \o (IF r2[1] > 0 THEN <<Face("end", z2, r2[1])>> ELSE <<>>),
           FALSE)

\* brep().transform(body, rotation): half a turn about x, then up by height.
Flipped(body, height) ==
    AsList([i \in 1..Len(body) |-> [body[i] EXCEPT !.z = height - @]])

\* The assignments of _bottom_index and _top_index, and Shape.__init__.
CylinderOf(b, height, radius, top_radius) ==
    IF b.err THEN [err |-> TRUE]
    ELSE [err |-> FALSE,
          body |-> IF radius = 0 THEN Flipped(b.v, height) ELSE b.v,
          bottom_index |-> IF radius = 0 THEN None ELSE Some(1),
          top_index |-> IF radius = 0 THEN Some(1)
                        ELSE IF top_radius = Some(0) THEN None ELSE Some(2)]

\* Cylinder(height, radius, top_radius); top_radius is None when omitted.
NewCylinder(height, radius, top_radius) ==
    CylinderOf(IF radius = 0
               THEN CreateCylinderOrCone(0, top_radius, height, Some(radius))
               ELSE CreateCylinderOrCone(0, Some(radius), height,
                                         IF top_radius # None THEN top_radius
                                         ELSE Some(radius)),
               height, radius, top_radius)

\* faces[index]: None for no index; past the end of the list, the
\* IndexError in the place of a face.
FaceAt(body, index) ==
    IF index = None THEN None
    ELSE IF index[1] + 1 > Len(body) THEN Some(Face("IndexError", 0, 0))
    ELSE Some(body[index[1] + 1])

\* Cylinder.top and Cylinder.bottom
Top(c) == FaceAt(c.body, c.top_index)
Bottom(c) == FaceAt(c.body, c.bottom_index)

\* Mutant: a copy made by Shape._copy_to alone, with the indices the
\* class would give a cylinder with two flat ends.
CylinderCopy_plain(c) ==
    [err |-> FALSE, body |-> c.body, bottom_index |-> Some(1),
     top_index |-> Some(2)]

\* Cylinder.copy(): Shape._copy_to copies the body, Cylinder._copy_to the
\* two indices.
CylinderCopy(c) ==
    [err |-> FALSE, body |-> c.body, bottom_index |-> c.bottom_index,
     top_index |-> c.top_index]

\* What a script reads off a cylinder and off its copy.
CylinderSeen(c) ==
    IF c.err THEN [err |-> TRUE]
    ELSE [err |-> FALSE, top |-> Top(c), bottom |-> Bottom(c),
          copyTop |-> Top(CylinderCopy(c)),
          copyBottom |-> Bottom(CylinderCopy(c))]

DoCylinder(height, radius, top_radius) ==
    /\ nops = 0
    /\ probe = NoProbe
    /\ probe' = [kind |-> "cylinder", height |-> height, radius |-> radius,
                 top_radius |-> top_radius,
                 seen |-> CylinderSeen(NewCylinder(height, radius, top_radius))]
    /\ UNCHANGED <<heap, last, nops>>

(***************************************************************************)
(* run_design.  The open documents are a set of records: a name, and       *)
(* whether the document is the one setup_document added.  What a call does *)
(* is kept as the list of its steps.                                       *)
(***************************************************************************)
DocumentName == "fSCAD-Preview"

Doc(name, added) == [added |-> added, name |-> name]

\* The kernel call of setup_document that raises, if any.
SetupFailures == {"none", "close", "add", "activate"}

\* How design_func ends: it returns, it raises an exception that derives
\* from Exception, or one that derives from BaseException only
\* (SystemExit, KeyboardInterrupt).
CallbackEnds == {"returns", "Exception", "BaseException"}

\* setup_document after documents.add: the name, then activate.
SetupAdded(docs, name, fail, steps) ==
    IF fail = "activate"
    THEN [err |-> TRUE, docs |-> docs \cup {Doc(name, TRUE)},
          steps |-> steps \o <<"add">>]
    ELSE [err |-> FALSE, docs |-> docs \cup {Doc(name, TRUE)},
          steps |-> steps \o <<"add", "activate">>]

\* setup_document from documents.add on.
SetupAdd(docs, name, fail, steps) ==
    IF fail = "add" THEN [err |-> TRUE, docs |-> docs, steps |-> steps]
    ELSE SetupAdded(docs, name, fail, steps)

\* setup_document(document_name): a document of that name is closed, a new
\* one is added, named and activated.
SetupDocument(docs, name, fail) ==
    IF \E d \in docs : d.name = name
    THEN IF fail = "close" THEN [err |-> TRUE, docs |-> docs, steps |-> <<>>]
         ELSE SetupAdd({d \in docs : d.name # name}, name, fail, <<"close">>)
    ELSE SetupAdd(docs, name, fail, <<>>)

\* Mutant: the handler re-raises what it reported.
Handle_reraise(r, message_box_on_error) ==
    [propagated |-> TRUE, docs |-> r.docs, made |-> r.made,
     steps |-> r.steps \o <<"print">>
                  \o (IF message_box_on_error THEN <<"messageBox">> ELSE <<>>)]

\* except Exception: print the trace, and show it if asked to.
Handle(r, message_box_on_error) ==
    [propagated |-> FALSE, docs |-> r.docs, made |-> r.made,
     steps |-> r.steps \o <<"print">>
                  \o (IF message_box_on_error THEN <<"messageBox">> ELSE <<>>)]

\* design_func(): it makes `made` components and then ends as `ends` says.
Called(s, ends, made, message_box_on_error) ==
    CASE ends = "returns" ->
            [propagated |-> FALSE, docs |-> s.docs, made |-> made,
             steps |-> s.steps \o <<"design_func">>]
      [] ends = "Exception" ->
            Handle([docs |-> s.docs, made |-> made,
                    steps |-> s.steps \o <<"design_func">>],
                   message_box_on_error)
      [] ends = "BaseException" ->
            [propagated |-> TRUE, docs |-> s.docs, made |-> made,
             steps |-> s.steps \o <<"design_func">>]

\* The try block after setup_document (s).
AfterSetup(s, ends, made, message_box_on_error) ==
    IF s.err
    THEN Handle([docs |-> s.docs, made |-> 0, steps |-> s.steps],
                message_box_on_error)
    ELSE Called(s, ends, made, message_box_on_error)

\* run_design(design_func, message_box_on_error, document_name)
RunDesign(docs, name, fail, ends, made, message_box_on_error) ==
    AfterSetup(SetupDocument(docs, name, fail), ends, made, message_box_on_error)

\* The documents open before the call: another one, and the named one or not.
OpenDocuments(exists) ==
    {Doc("other", FALSE)}
        \cup (IF exists THEN {Doc(DocumentName, FALSE)} ELSE {})

DoRunDesign(exists, fail, ends, made, message_box_on_error) ==
    /\ nops = 0
    /\ probe = NoProbe
    /\ probe' = [kind |-> "run_design", exists |-> exists, fail |-> fail,
                 ends |-> ends, made |-> made, mbox |-> message_box_on_error,
                 ran |-> RunDesign(OpenDocuments(exists), DocumentName, fail,
                                   ends, made, message_box_on_error)]
    /\ UNCHANGED <<heap, last, nops>>

(***************************************************************************)
(* add of the composite itself, or of one of its ancestors.  The argument  *)
(* has no parent, so it is attached as it is, and the tree closes into a   *)
(* cycle; _reset_cache then recurses until the interpreter's recursion     *)
(* limit is reached and RecursionError is raised.                          *)
(***************************************************************************)
RecursionLimit == 6

RECURSIVE ResetDeep(_, _, _)
RECURSIVE ResetKids(_, _, _, _)

\* for component in self.children(): component._reset_cache(), after child i.
ResetKidsNext(r, kids, i, depth) ==
    IF r.err THEN r ELSE ResetKids(r.h, kids, i + 1, depth)

\* for component in self.children(): component._reset_cache(), from child i.
ResetKids(h, kids, i, depth) ==
    IF i > Len(kids) THEN R(h, 0, FALSE)
    ELSE ResetKidsNext(ResetDeep(h, kids[i], depth + 1), kids, i, depth)

\* _reset_cache as the interpreter runs it: one frame per nested call.
ResetDeep(h, n, depth) ==
    IF depth > RecursionLimit THEN R(h, 0, TRUE)
    ELSE ResetKids(ClearIn(h, {n}), h[n].children, 1, depth)

\* The func that add passes to _add_children.
AddFunc(kind) ==
    CASE kind = "Union" -> "UnionAdd"
      [] kind = "Difference" -> "DifferenceAdd"
      [] kind = "Intersection" -> "IntersectionAdd"

\* The self._reset_cache() that ends _add_children (r).
OwnReset(r) == [h |-> r.h, err |-> r.err, linked |-> TRUE]

\* child._parent = self; self._children.append(child), unless func raised.
OwnLink(f, self, c) ==
    IF f.err THEN [h |-> f.h, err |-> TRUE, linked |-> FALSE]
    ELSE OwnReset(ResetDeep([f.h EXCEPT ![c].parent = self,
                                        ![self].children = Append(@, c)],
                            self, 1))

\* The loop of _add_children for the one child c.
OwnAttach(p, self, c) ==
    OwnLink(ProcessChild(Localise(InverseTransform(p.h, self), c), self, c,
                         AddFunc(p.h[self].kind), p.v, <<>>),
            self, c)

\* self.add(c) for a parentless c that is self or an ancestor of self.
AddOwn(h, self, c) ==
    OwnAttach(IF h[self].kind = "Intersection" THEN GetPlane(h, self)
              ELSE R(h, None, FALSE),
              self, c)

DoAddOwn(n, c) ==
    /\ nops < TwinOps
    /\ probe = NoProbe
    /\ heap[n].kind \in CsgKinds
    /\ heap[c].parent = 0
    /\ c \in {n} \cup Ancestors(heap, n)
    /\ probe' = [kind |-> "add_own", node |-> n, arg |-> c,
                 ran |-> AddOwn(heap, n, c)]
    /\ UNCHANGED <<heap, last, nops>>

(***************************************************************************)
(* Translation and a scalar under +, -, * and /.  A scalar s is 4 * s      *)
(* quarters as an addend and s as a factor.  The value of the expression   *)
(* is None when the method has no return statement; / finds no __truediv__ *)
(* and raises TypeError, leaving the vector alone.                         *)
(***************************************************************************)
Operators == {"+", "-", "*", "/"}
Scalars == {-2, 5}

\* What t <op> s leaves: whether it raised, the value of the expression,
\* and the vector the Translation then holds.
Offset(op, t, s) ==
    CASE op = "+" ->
            [err |-> FALSE,
             value |-> Some(<<Fl(t[1] + 4 * s), Fl(t[2] + 4 * s), Fl(t[3] + 4 * s)>>),
             vector |-> <<Fl(t[1] + 4 * s), Fl(t[2] + 4 * s), Fl(t[3] + 4 * s)>>]
      [] op = "-" ->
            [err |-> FALSE, value |-> None,
             vector |-> <<Fl(t[1] - 4 * s), Fl(t[2] - 4 * s), Fl(t[3] - 4 * s)>>]
      [] op = "*" ->
            [err |-> FALSE, value |-> None,
             vector |-> <<Fl(t[1] * s), Fl(t[2] * s), Fl(t[3] * s)>>]
      [] op = "/" -> [err |-> TRUE, value |-> None, vector |-> t]

\* n.place(x, y, z) for the x that the expression o left: reading x.x of
\* None raises before anything is changed.
PlaceOffset(n, o, y, z) ==
    IF o.err \/ o.value = None THEN [err |-> TRUE, node |-> n]
    ELSE [err |-> FALSE, node |-> Place3(n, o.value[1], y, z)]

\* b.place((-b == +a) <op> s, ~b == ~a, ~b == ~a)
AlignedOffset(a, b, op, s) ==
    PlaceOffset(Measured(b), Offset(op, PlaceEq(Min3(b), Max3(a)), s),
                PlaceEq(Mid3(b), Mid3(a)), PlaceEq(Mid3(b), Mid3(a)))

\* a = Box(*sa).translate(*pa); b = Box(*sb).translate(*pb); the offset
\* expression on its own, and the place with it.
DoOffset(op, s, sa, pa, sb, pb) ==
    /\ nops = 0
    /\ probe = NoProbe
    /\ probe' = [kind |-> "offset", op |-> op, s |-> s,
                 a |-> Box3(sa, pa), b |-> Box3(sb, pb),
                 t |-> PlaceEq(Min3(Box3(sb, pb)), Max3(Box3(sa, pa))),
                 offset |-> Offset(op, PlaceEq(Min3(Box3(sb, pb)),
                                               Max3(Box3(sa, pa))), s),
                 placed |-> AlignedOffset(Box3(sa, pa), Box3(sb, pb), op, s)]
    /\ UNCHANGED <<heap, last, nops>>

InitMore ==
    /\ heap \in InitHeaps \cup {SkewedUnion}
    /\ last = Op("init", "", 0, <<>>, 0, FALSE, FALSE)
    /\ nops = 0
    /\ probe = NoProbe

NextMore ==
    \/ nops < TwinOps /\ Next
    \/ \E n \in Nodes(heap) : \E kind \in CompositeKinds : \E ms \in MoveSeqs :
          \E onCopy \in BOOLEAN : DoIsolate(n, kind, ms, onCopy)
    \/ \E n \in Nodes(heap) : \E sx, sy, sz \in ScaleFactors :
          \E cz \in ScaleAxesCenters : DoScaleAxes(n, sx, sy, sz, cz)
    \/ \E cs \in ArgSeqs(heap, 0) : DoLoftSections(cs)
    \/ \E sa, sb \in BoxSizes : \E pa, pb \in BoxPoses :
          DoAlign(sa, pa, sb, pb)
    \/ \E height \in Heights : \E radius \in Radii :
          \E top_radius \in {None} \cup {Some(r) : r \in Radii} :
             DoCylinder(height, radius, top_radius)
    \/ \E exists, message_box_on_error \in BOOLEAN : \E fail \in SetupFailures :
          \E ends \in CallbackEnds : \E made \in 0..1 :
             DoRunDesign(exists, fail, ends, made, message_box_on_error)
    \/ \E n, c \in Nodes(heap) : DoAddOwn(n, c)
    \/ \E op \in Operators : \E s \in Scalars : \E sa, sb \in BoxSizes :
          \E pa, pb \in BoxPoses : DoOffset(op, s, sa, pa, sb, pb)

SpecMore == InitMore /\ [][NextMore]_vars

(***************************************************************************)
(* C14: copying a node, attaching the copy to a new composite and          *)
(* transforming the composite or the copy leaves the original as it was.   *)
(***************************************************************************)
\* C14: after c = n.copy(); x = Kind(c); moves of x or of c, the original
\* n has the local and world transform, the parent, the children (the same
\* objects in the same order, each with the transform, children and
\* geometry it had) and the owned geometry it had before, and no object of
\* the copy's subtree is an object that existed before the copy.
C14_CopyIsolated ==
    probe.kind = "isolate" =>
        /\ probe.seen.after = probe.before
        /\ probe.seen.fresh

\* The script ran to its end on a composite with a parent and children that
\* is not in the identity pose.
C14_Witness ==
    /\ probe.kind = "isolate"
    /\ ~probe.seen.err
    /\ heap[probe.node].parent # 0
    /\ Len(heap[probe.node].children) > 0
    /\ probe.before.world # Identity

(***************************************************************************)
(* C16: scale raises exactly for factors of different magnitude, before it *)
(* changes anything; otherwise it scales about the centre and invalidates  *)
(* the subtree.                                                            *)
(***************************************************************************)
\* The local transform after translate(-centre), scale, translate(+centre).
AboutCentre(l, s, cz) ==
    TransformBy(TransformBy(TransformBy(l, TranslationMatrix(-cz)), ScaleMatrix(s)),
                TranslationMatrix(cz))

\* C16: scale(sx, sy, sz, center) raises exactly when not |sx| = |sy| = |sz|;
\* when it raises every object is as it was, caches included; when it does
\* not, the node's local transform is composed with translate(-center),
\* scale, translate(+center) in that order, every cache of the node and of
\* its descendants is empty, and nothing else has changed.
C16_ScaleUniformOrRaise ==
    probe.kind = "scale" =>
        /\ probe.ran.err <=>
              ~(Abs(probe.sx) = Abs(probe.sy) /\ Abs(probe.sy) = Abs(probe.sz))
        /\ probe.ran.err => probe.ran.h = heap
        /\ ~probe.ran.err =>
              /\ Len(probe.ran.h) = Len(heap)
              /\ probe.ran.h[probe.node].local =
                    AboutCentre(heap[probe.node].local, probe.sz, probe.cz)
              /\ \A d \in Subtree(heap, probe.node) :
                    /\ Cleared(probe.ran.h[d])
                    /\ d # probe.node => probe.ran.h[d].local = heap[d].local
                    /\ probe.ran.h[d].parent = heap[d].parent
                    /\ probe.ran.h[d].children = heap[d].children
                    /\ probe.ran.h[d].raw = heap[d].raw
              /\ \A d \in Nodes(heap) \ Subtree(heap, probe.node) :
                    probe.ran.h[d] = heap[d]

\* A scale with one factor given and the others left at 1 raised on a node
\* with filled caches.
C16_Witness ==
    /\ probe.kind = "scale"
    /\ probe.ran.err
    /\ probe.sx = 2 /\ probe.sy = 1 /\ probe.sz = 1
    /\ HasCache(heap[probe.node])

\* A scale about a centre off the origin went through on a node that has a
\* descendant with a filled cache.
C16_WitnessApplied ==
    /\ probe.kind = "scale"
    /\ ~probe.ran.err
    /\ probe.cz = 1 /\ probe.sz = -1
    /\ Hot(heap, probe.node)

(***************************************************************************)
(* C18: b.place(-b == +a, ~b == ~a, ~b == ~a) puts b against a along x     *)
(* and centres it on a along y and z.                                      *)
(***************************************************************************)
\* C18 as stated: for boxes a and b in any translated pose, after
\* b.place(-b == +a, ~b == ~a, ~b == ~a) the bounding box of b measured
\* anew has min(b).x = max(a).x, mid(b).y = mid(a).y and mid(b).z = mid(a).z.
C18_PlaceAligns ==
    probe.kind = "align" =>
        /\ Min3(probe.placed)[1] = Max3(probe.a)[1]
        /\ Mid3(probe.placed)[2] = Mid3(probe.a)[2]
        /\ Mid3(probe.placed)[3] = Mid3(probe.a)[3]

\* The exact values of the sums, differences and halves computed for axis
\* i on the way: the far corner and the doubled centre of both boxes, the
\* vector from b's point to a's, b's new translation, and its new far
\* corner and doubled centre.
Computed(a, b, i) ==
    LET from == IF i = 1 THEN b.at[i] ELSE (2 * b.at[i] + b.size[i]) \div 2
        to == IF i = 1 THEN a.at[i] + a.size[i]
              ELSE (2 * a.at[i] + a.size[i]) \div 2
    IN  {a.at[i] + a.size[i], b.at[i] + b.size[i],
         2 * a.at[i] + a.size[i], 2 * b.at[i] + b.size[i],
         to - from, b.at[i] + (to - from), b.at[i] + (to - from) + b.size[i],
         2 * (b.at[i] + (to - from)) + b.size[i]}

NoRounding(a, b) == \A i \in 1..3 : \A v \in Computed(a, b, i) : Fl(v) = v

\* C18 amended: b is translated by the rounded vector from its min corner
\* to a's max corner along x and from its centre to a's centre along y and
\* z, and its cached box is dropped; whenever none of the sums and
\* differences on the way is rounded, min(b).x = max(a).x,
\* mid(b).y = mid(a).y and mid(b).z = mid(a).z.
C18_PlaceAlignsExactly ==
    probe.kind = "align" =>
        /\ probe.placed.cbb = None
        /\ probe.placed.at[1] =
              Fl(probe.b.at[1] + Fl(Max3(probe.a)[1] - Min3(probe.b)[1]))
        /\ \A i \in 2..3 :
              probe.placed.at[i] =
                 Fl(probe.b.at[i] + Fl(Mid3(probe.a)[i] - Mid3(probe.b)[i]))
        /\ NoRounding(probe.a, probe.b) =>
              /\ Min3(probe.placed)[1] = probe.a.at[1] + probe.a.size[1]
              /\ 2 * Mid3(probe.placed)[2] = 2 * probe.a.at[2] + probe.a.size[2]
              /\ 2 * Mid3(probe.placed)[3] = 2 * probe.a.at[3] + probe.a.size[3]

\* Boxes of different sizes in different poses, nothing was rounded, and b
\* had to move along every axis, by a different amount along each.
C18_Witness ==
    /\ probe.kind = "align"
    /\ NoRounding(probe.a, probe.b)
    /\ probe.a.size # probe.b.size
    /\ probe.a.at # probe.b.at
    /\ \A i \in 1..3 : probe.placed.at[i] # probe.b.at[i]
    /\ probe.placed.at[1] - probe.b.at[1] # probe.placed.at[2] - probe.b.at[2]
    /\ probe.placed.at[2] - probe.b.at[2] # probe.placed.at[3] - probe.b.at[3]


(***************************************************************************)
(* C19: Loft takes one face from each child, in order, and rejects a       *)
(* child that is not planar or does not have exactly one face.             *)
(***************************************************************************)
\* The faces of a child in the world frame, from its own geometry.
ChildFaces(h, c) ==
    IF h[c].raw = None THEN {}
    ELSE UNION {Faces(b) : b \in Range(FreshBodies(h, c))}

OneFace(h, c) ==
    /\ TruePlane(h, c) # None
    /\ h[c].raw # None
    /\ FaceCount(FreshBodies(h, c), 1) = 1

C19_WitnessTwoFaces ==
    /\ probe.kind = "loft" /\ probe.err
    /\ \E i \in 1..Len(probe.args) :
          /\ TruePlane(heap, probe.args[i]) # None
          /\ heap[probe.args[i]].raw # None
          /\ FaceCount(FreshBodies(heap, probe.args[i]), 1) > 1

C19_WitnessNoFace ==
    /\ probe.kind = "loft" /\ probe.err
    /\ \E i \in 1..Len(probe.args) :
          /\ TruePlane(heap, probe.args[i]) # None
          /\ heap[probe.args[i]].raw # None
          /\ FaceCount(FreshBodies(heap, probe.args[i]), 1) = 0

C19_WitnessNoPlane ==
    /\ probe.kind = "loft" /\ probe.err
    /\ \E i \in 1..Len(probe.args) : TruePlane(heap, probe.args[i]) = None


(***************************************************************************)
(* C20: the top and bottom of a cylinder or cone, and of its copy.         *)
(***************************************************************************)
\* The radius at the top: top_radius, or radius when it is omitted.
TopRadius(radius, top_radius) ==
    IF top_radius = None THEN radius ELSE top_radius[1]

\* C20: for every Cylinder(height, radius, top_radius) that is constructed,
\* top is None exactly when the top radius is zero and bottom is None
\* exactly when radius is zero; an end that is there is the flat face at
\* that end, with that radius; and top and bottom of a copy are those of
\* the original.
C20_CylinderEnds ==
    (probe.kind = "cylinder" /\ ~probe.seen.err) =>
        /\ probe.seen.top = None
              <=> TopRadius(probe.radius, probe.top_radius) = 0
        /\ probe.seen.bottom = None <=> probe.radius = 0
        /\ probe.seen.top # None =>
              probe.seen.top =
                 Some(Face("end", probe.height,
                           TopRadius(probe.radius, probe.top_radius)))
        /\ probe.seen.bottom # None =>
              probe.seen.bottom = Some(Face("end", 0, probe.radius))
        /\ probe.seen.copyTop = probe.seen.top
        /\ probe.seen.copyBottom = probe.seen.bottom

\* A cone standing on its tip: no bottom, and a top.
C20_Witness ==
    /\ probe.kind = "cylinder" /\ ~probe.seen.err
    /\ probe.radius = 0
    /\ probe.seen.bottom = None /\ probe.seen.top # None
    /\ probe.seen.copyBottom = None

\* A cone with its tip up, and a cylinder with top_radius omitted.
C20_WitnessTip ==
    /\ probe.kind = "cylinder" /\ ~probe.seen.err
    /\ probe.top_radius = Some(0)
    /\ probe.seen.top = None /\ probe.seen.bottom # None

C20_WitnessPlain ==
    /\ probe.kind = "cylinder" /\ ~probe.seen.err
    /\ probe.top_radius = None
    /\ probe.seen.top # None /\ probe.seen.bottom # None


(***************************************************************************)
(* C21: run_design sets the document up, calls design_func once, and       *)
(* reports what they raise.                                                *)
(***************************************************************************)
Times(steps, x) == Cardinality({i \in 1..Len(steps) : steps[i] = x})

\* setup_document came to its end.
SetupDone(p) ==
    ~(p.fail = "close" /\ p.exists) /\ p.fail \notin {"add", "activate"}

\* The part of C21 that does not depend on what is raised: design_func is
\* called at most once, only after a setup that came to its end (the
\* named document is then the one just added), the trace is printed
\* exactly when setup or design_func raised an exception deriving from
\* Exception, the message box follows the print exactly when
\* message_box_on_error is set, and nothing made is undone: the document
\* added and the components design_func made are still there.
RunsOnce(p) ==
    /\ Times(p.ran.steps, "design_func") = (IF SetupDone(p) THEN 1 ELSE 0)
    /\ \A i \in 1..Len(p.ran.steps) :
          p.ran.steps[i] = "design_func" =>
             /\ i > 1 /\ p.ran.steps[i - 1] = "activate"
             /\ {d \in p.ran.docs : d.name = DocumentName}
                   = {Doc(DocumentName, TRUE)}
    /\ Times(p.ran.steps, "print")
          = (IF ~SetupDone(p) \/ p.ends = "Exception" THEN 1 ELSE 0)
    /\ Times(p.ran.steps, "messageBox")
          = (IF p.mbox THEN Times(p.ran.steps, "print") ELSE 0)
    /\ \A i \in 1..Len(p.ran.steps) :
          p.ran.steps[i] = "messageBox" => i > 1 /\ p.ran.steps[i - 1] = "print"
    /\ Doc("other", FALSE) \in p.ran.docs
    /\ Times(p.ran.steps, "add") = 1 => Doc(DocumentName, TRUE) \in p.ran.docs
    /\ SetupDone(p) => p.ran.made = p.made

\* C21 as stated: all of the above, and run_design returns normally
\* whatever setup or design_func raised.
C21_NeverPropagates ==
    probe.kind = "run_design" => (RunsOnce(probe) /\ ~probe.ran.propagated)

\* C21 amended: all of the above, and run_design returns normally unless
\* design_func raised an exception that does not derive from Exception,
\* which propagates unreported.
C21_CatchesExceptions ==
    probe.kind = "run_design" =>
        /\ RunsOnce(probe)
        /\ probe.ran.propagated
              <=> (SetupDone(probe) /\ probe.ends = "BaseException")

\* design_func made a component and raised; the trace was printed and
\* shown, and run_design returned.
C21_Witness ==
    /\ probe.kind = "run_design"
    /\ probe.exists /\ probe.ends = "Exception" /\ probe.made = 1 /\ probe.mbox
    /\ probe.ran.steps =
          <<"close", "add", "activate", "design_func", "print", "messageBox">>
    /\ ~probe.ran.propagated

\* setup_document raised: design_func was not called.
C21_WitnessSetup ==
    /\ probe.kind = "run_design"
    /\ probe.fail = "add" /\ ~probe.mbox
    /\ probe.ran.steps = <<"print">>
    /\ ~probe.ran.propagated


(***************************************************************************)
(* C22: the coplanarity check of add compares the two planes in one frame. *)
(***************************************************************************)
\* add(c) on a Union, Difference or Intersection that holds geometry and
\* has a plane, for a planar c that holds geometry: it raises exactly when
\* the plane of c and the plane of the composite, both in world space,
\* are not coplanar.
SameFrameVerdict(h, l, h2) ==
    (/\ l.op = "add" /\ l.kind \in CsgKinds /\ Len(l.args) = 1
     /\ HasBodies(h, l.node) /\ HasBodies(h, l.args[1])
     /\ TruePlane(h, l.node) # None /\ TruePlane(h, l.args[1]) # None)
       => (l.err <=> ~IsCoPlanarTo(TruePlane(h, l.node)[1],
                                   TruePlane(h, l.args[1])[1]))

\* C22: whatever the world transform of the composite, add accepts a
\* planar child exactly when its world-space plane is coplanar with the
\* world-space plane the composite has from its planar children.
C22_SameFrame == [][SameFrameVerdict(heap, last', heap')]_vars


(***************************************************************************)
(* C23: no node is its own ancestor.                                       *)
(***************************************************************************)
\* The node k parent links above n, or 0 when the links end before.
RECURSIVE Up(_, _, _)
Up(h, n, k) ==
    IF k = 0 \/ n = 0 THEN n ELSE Up(h, h[n].parent, k - 1)

OwnAncestor(h, n) == \E k \in 1..Len(h) : Up(h, n, k) = n

\* C23: after add, also of the composite itself or of one of its
\* ancestors, no node is its own ancestor, and the cache reset that ends
\* the add terminates.
C23_Acyclic ==
    probe.kind = "add_own" =>
        /\ \A n \in Nodes(probe.ran.h) : ~OwnAncestor(probe.ran.h, n)
        /\ probe.ran.linked => ~probe.ran.err


(***************************************************************************)
(* C24: what an add that raised leaves behind.                             *)
(***************************************************************************)
\* The children the call attached before it raised.
AttachedBefore(h, self, h2) ==
    SubSeq(h2[self].children, Len(h[self].children) + 1, Len(h2[self].children))

\* The index in the arguments of the child whose processing raised.
RaisedAt(h, self, h2) == Len(AttachedBefore(h, self, h2)) + 1

\* ci is not attached and has the local transform and world pose it had.
RaisedChildKept(h, self, ci, h2) ==
    /\ h2[ci].parent = h[ci].parent
    /\ ci \notin Range(AttachedBefore(h, self, h2))
    /\ h2[ci].local = h[ci].local
    /\ TrueWorld(h2, ci) = TrueWorld(h, ci)
    /\ GetWorldTransform(h2, ci).v = TrueWorld(h, ci)

\* The folded result is that of the add of c1..ci-1 alone.
RaisedFoldKept(h, self, cs, i, h2) ==
    h2[self].raw = Add(h, self, SubSeq(cs, 1, i - 1)).h[self].raw

\* Every child attached before the raise, and every node below it, returns
\* the world transform and the bodies that its place under the composite
\* gives it.
EarlierConsistent(h, self, h2) ==
    \A c \in Range(AttachedBefore(h, self, h2)) :
        /\ h2[c].parent = self
        /\ \A d \in Subtree(h2, c) :
              /\ GetWorldTransform(h2, d).v = TrueWorld(h2, d)
              /\ h2[d].raw # None => Bodies(h2, d).v = FreshBodies(h2, d)

RaisedAddKeeps(h, l, h2) ==
    /\ RaisedAt(h, l.node, h2) \in 1..Len(l.args)
    /\ l.args[RaisedAt(h, l.node, h2)]
          \notin Range(SubSeq(l.args, 1, RaisedAt(h, l.node, h2) - 1))
          => RaisedChildKept(h, l.node, l.args[RaisedAt(h, l.node, h2)], h2)
    /\ RaisedFoldKept(h, l.node, l.args, RaisedAt(h, l.node, h2), h2)
    /\ EarlierConsistent(h, l.node, h2)

\* C24: when add(c1..cn) raises at ci, ci is not attached and keeps its
\* local transform and world pose, the folded result has nothing of ci,
\* and c1..ci-1 return world transforms and bodies consistent with their
\* new parent.
C24_RaisedAddKeeps ==
    [][(last'.op = "add" /\ last'.err) => RaisedAddKeeps(heap, last', heap')]_vars


(***************************************************************************)
(* C25: a Translation offset by a scalar.                                  *)
(***************************************************************************)
\* The exact components of t combined with the scalar s under op.
Combined(op, t, s, i) ==
    CASE op = "+" -> t[i] + 4 * s
      [] op = "-" -> t[i] - 4 * s
      [] op = "*" -> t[i] * s
      [] op = "/" -> t[i] \div s

\* C25: t + s, t - s, t * s and t / s each return a Translation whose
\* components are those of t combined with s, place accepts it, and
\* b.place((-b == +a) + s, ~b == ~a, ~b == ~a) leaves
\* min(b).x = max(a).x + s.
C25_OffsetByScalar ==
    probe.kind = "offset" =>
        /\ ~probe.offset.err
        /\ probe.offset.value # None
        /\ \A i \in 1..3 :
              probe.offset.value[1][i] = Fl(Combined(probe.op, probe.t, probe.s, i))
        /\ ~probe.placed.err
        /\ probe.op = "+" =>
              Min3(probe.placed.node)[1] = Fl(Max3(probe.a)[1] + 4 * probe.s)

====
